---- MODULE Spec2Model ----
(***************************************************************************)
(* Model of the esdb-tui session controller (views::Context), the views it *)
(* owns (DashboardView, StreamsView, ProjectionsViews) and the render /    *)
(* input loop that drives them.                                            *)
(* The model objects (Model::from, models::Projections,                    *)
(* models::PersistentSubscriptions, models::Monitoring) are also exercised *)
(* on their own, each under a specification of its own.                    *)
(*                                                                         *)
(* Conventions                                                             *)
(*   Option<T>   a set with at most one element: {} is None, {x} is Some(x)*)
(*   String      a sequence of characters (one-character strings); a stats *)
(*               key is a sequence of tokens in which "-" is the separator *)
(*   Vec<T>      a sequence, 1-based here and 0-based in the source: the   *)
(*               source's v[i] is v[i + 1] in the model                    *)
(*   panic       the process aborts: pc becomes "panicked" and the state   *)
(*               is frozen as it was when the failing handler was entered  *)
(*   usize       `len - 1` with len = 0 panics in a build that checks      *)
(*               overflow and wraps in one that does not: each such        *)
(*               subtraction takes either outcome                          *)
(***************************************************************************)
EXTENDS Integers, Sequences, FiniteSets, TLC

(***************************************************************************)
(* Bounds of the model                                                     *)
(***************************************************************************)
\* highest scroll offset / selection a key press may count up to
MaxScroll == 1
\* longest search text typed into the stream browser's popup
MaxBuffer == 1
\* most records one read of a stream or one listing returns
MaxRecords == 1

(***************************************************************************)
(* Shared vocabulary                                                       *)
(***************************************************************************)
None == {}
Some(x) == {x}
Unwrap(o) == CHOOSE x \in o : TRUE

\* eventstore::Error values a client call can return
Errors == {"Transport", "ResourceNotFound"}

\* views::Request
Request == {"Noop", "Refresh", "Exit"}

\* crossterm KeyCode values the handlers distinguish: Chars are the printable
\* ASCII characters among them, and "F1" stands for every other key
Chars == {"q", "Q", "/"}
Keys == Chars \cup {"Tab", "BackTab", "Up", "Down", "Left", "Right",
                    "Enter", "Esc", "Backspace", "F1"}

\* sequences over S of length at most n
SeqsUpTo(S, n) == UNION {[1..k -> S] : k \in 0..n}

(***************************************************************************)
(* What one call of a view's load / refresh reports to the controller      *)
(*   view  the view after the call                                         *)
(*   out   "Ok", the eventstore::Error returned as Err, or "panic"         *)
(*   err   the error the call ran into, if any: returned by the client or  *)
(*         made by the view itself                                         *)
(***************************************************************************)
Done(v) == [view |-> v, out |-> "Ok", err |-> None]
Failed(v, e) == [view |-> v, out |-> e, err |-> Some(e)]
\* `.unwrap()` / `.expect()` on an Err(e) the client returned
UnwrapErr(v, e) == [view |-> v, out |-> "panic", err |-> Some(e)]
\* a panic that no client error caused (index out of range, unwrap of None)
Panic(v) == [view |-> v, out |-> "panic", err |-> None]

(***************************************************************************)
(* What one call of a view's on_key_pressed yields: the view after the     *)
(* call and the Request returned, or a panic                               *)
(***************************************************************************)
Handled(v, req) == [view |-> v, req |-> req, panic |-> FALSE]
KeyPanic(v) == [view |-> v, req |-> "Noop", panic |-> TRUE]

(***************************************************************************)
(* What one read of a stream yields: the call that opens the read may fail *)
(* (open), then the records come one by one (items), then the read ends    *)
(* with Ok(None) ("End") or with an error                                  *)
(***************************************************************************)
ReadEnds == {"End"} \cup Errors
Read(open, items, end) == [open |-> open, items |-> items, end |-> end]
ReadsOf(ItemLists) ==
    {Read("Ok", items, end) : items \in ItemLists, end \in ReadEnds}
        \cup {Read(e, <<>>, "End") : e \in Errors}

(***************************************************************************)
(* DashboardView and its resource-queue Model       (views/dashboard.rs)   *)
(***************************************************************************)
QueueFields == {"idleTimePercent", "queueName", "avgItemsPerSecond",
                "lengthCurrentTryPeak", "currentIdleTime", "length",
                "groupName", "lengthLifetimePeak", "inProgressMessage",
                "lastProcessedMessage", "totalItemsProcessed"}

\* Queue::default(): every field the empty string
QueueDefault == [f \in QueueFields |-> ""]

\* str::split('-'): n separators give n + 1 sections, empty ones included
RECURSIVE Split(_)
Split(s) ==
    IF \A i \in DOMAIN s : s[i] # "-" THEN <<s>>
    ELSE LET i == CHOOSE i \in DOMAIN s :
                      s[i] = "-" /\ \A j \in 1..(i - 1) : s[j] # "-"
         IN  <<SubSeq(s, 1, i - 1)>> \o Split(SubSeq(s, i + 1, Len(s)))

\* Model::from's loop body, had it built the queue anew for every key
ModelFromStep_anew(acc, key, value) ==
    LET sections == Split(key) IN
    IF acc.panic THEN acc
    ELSE IF Len(sections) < 2 THEN [acc EXCEPT !.panic = TRUE]
    ELSE IF sections[2] # <<"queue">> THEN acc
    ELSE IF Len(sections) < 4 THEN [acc EXCEPT !.panic = TRUE]
    ELSE LET name  == sections[3]
             field == sections[4]
             new   == IF Len(field) = 1 /\ field[1] \in QueueFields
                      THEN [QueueDefault EXCEPT ![field[1]] = value]
                      ELSE QueueDefault
         IN  [acc EXCEPT !.queues =
                 [n \in DOMAIN acc.queues \cup {name} |->
                     IF n = name THEN new ELSE acc.queues[n]]]

\* the body of Model::from's loop for one (key, value) of the map; acc is
\* the queues built so far, or panicked by an index out of range
ModelFromStep(acc, key, value) ==
    LET sections == Split(key) IN
    IF acc.panic THEN acc
    ELSE IF Len(sections) < 2 THEN [acc EXCEPT !.panic = TRUE]
    ELSE IF sections[2] # <<"queue">> THEN acc
    ELSE IF Len(sections) < 4 THEN [acc EXCEPT !.panic = TRUE]
    ELSE LET name  == sections[3]
             field == sections[4]
             old   == IF name \in DOMAIN acc.queues
                      THEN acc.queues[name] ELSE QueueDefault
             new   == IF Len(field) = 1 /\ field[1] \in QueueFields
                      THEN [old EXCEPT ![field[1]] = value] ELSE old
         IN  [acc EXCEPT !.queues =
                 [n \in DOMAIN acc.queues \cup {name} |->
                     IF n = name THEN new ELSE acc.queues[n]]]

\* Model::from(map); entries lists the map's (key, value) pairs in the order
\* the HashMap iterates them
RECURSIVE ModelFrom(_, _)
ModelFrom(acc, entries) ==
    IF entries = <<>> THEN acc
    ELSE ModelFrom(ModelFromStep(acc, entries[1][1], entries[1][2]),
                   Tail(entries))

NoQueues == [n \in {} |-> QueueDefault]
Model_from(entries) == ModelFrom([panic |-> FALSE, queues |-> NoQueues], entries)

\* DashboardView::default()
DashboardDefault == [scroll |-> 0, queues |-> NoQueues, stats |-> FALSE]

\* what the statistics endpoint answers to one refresh: the call opening
\* the statistics stream (made once per session), then its next item
StatsReply(open, next, entries) == [open |-> open, next |-> next, entries |-> entries]

\* DashboardView::refresh, had it parsed the snapshot into the queues it
\* already holds
Dashboard_refresh_merging(v, reply) ==
    IF ~v.stats /\ reply.open # "Ok" THEN UnwrapErr(v, reply.open)
    ELSE IF reply.next \in Errors THEN UnwrapErr(v, reply.next)
    ELSE LET m == ModelFrom([panic |-> FALSE, queues |-> v.queues],
                            IF reply.next = "Some" THEN reply.entries ELSE <<>>)
         IN  IF m.panic THEN Panic(v)
             ELSE Done([v EXCEPT !.queues = m.queues, !.stats = TRUE])

\* DashboardView::refresh
Dashboard_refresh(v, reply) ==
    IF ~v.stats /\ reply.open # "Ok" THEN UnwrapErr(v, reply.open)
    ELSE IF reply.next \in Errors THEN UnwrapErr(v, reply.next)
    ELSE LET m == Model_from(IF reply.next = "Some" THEN reply.entries ELSE <<>>)
         IN  IF m.panic THEN Panic(v)
             ELSE Done([v EXCEPT !.queues = m.queues, !.stats = TRUE])

\* DashboardView::load
Dashboard_load(v, reply) == Dashboard_refresh(v, reply)

\* DashboardView::unload
Dashboard_unload(v) == v

\* DashboardView::on_key_pressed
Dashboard_on_key_pressed(v, key) ==
    CASE key \in {"q", "Q"} -> Handled(v, "Exit")
      [] key = "Up" ->
            Handled([v EXCEPT !.scroll = IF @ > 0 THEN @ - 1 ELSE @], "Noop")
      [] key = "Down" -> Handled([v EXCEPT !.scroll = @ + 1], "Noop")
      [] OTHER -> Handled(v, "Noop")

\* DashboardView::draw, for a table area `height` rows high: it clamps the
\* scroll offset and cannot fail
Dashboard_draw(v, height) ==
    LET rows == Cardinality(DOMAIN v.queues) + 4 IN
    [view |-> [v EXCEPT !.scroll =
                  IF height >= rows THEN 0
                  ELSE IF @ + height >= rows THEN rows - height
                  ELSE @],
     ok |-> TRUE]

(***************************************************************************)
(* StreamsView                                  (views/stream_browser.rs)  *)
(***************************************************************************)
\* width of the popup's input line: the buffer is drawn over 100 '_'
PopupInputWidth == 100

\* stream_browser::Model::default()
StreamsModelDefault ==
    [last_created |-> <<>>, recently_changed |-> <<>>,
     selected_stream |-> None, selected_stream_events |-> <<>>]

\* StreamsView::default(); the two TableStates only mirror `selected` for the
\* widget library and are left out
StreamsDefault ==
    [selected_tab |-> 0, selected |-> 0, stage |-> "Main", scroll |-> 0,
     buffer |-> <<>>, model |-> StreamsModelDefault]

\* Model::clear
StreamsModel_clear(m) ==
    [m EXCEPT !.last_created = <<>>, !.recently_changed = <<>>,
              !.selected_stream = None, !.selected_stream_events = <<>>]

\* str::rsplit_once('@').unwrap_or_default().1 : what follows the last '@',
\* and the empty string when there is none
AfterLastAt(text) ==
    IF \A i \in DOMAIN text : text[i] # "@" THEN <<>>
    ELSE LET i == CHOOSE i \in DOMAIN text :
                      text[i] = "@" /\ \A j \in (i + 1)..Len(text) : text[j] # "@"
         IN  SubSeq(text, i + 1, Len(text))

\* the first loop of StreamsView::load over the records of `$streams`
RECURSIVE LastCreatedOf(_)
LastCreatedOf(items) ==
    IF items = <<>> THEN <<>>
    ELSE <<AfterLastAt(items[1].text)>> \o LastCreatedOf(Tail(items))

\* the second loop of StreamsView::load over the records of `$all`: a stream
\* id already listed is skipped
RECURSIVE RecentlyChangedOf(_, _)
RecentlyChangedOf(acc, items) ==
    IF items = <<>> THEN acc
    ELSE RecentlyChangedOf(
             IF \E i \in DOMAIN acc : acc[i] = items[1] THEN acc
             ELSE Append(acc, items[1]),
             Tail(items))

\* read_stream_next: ResourceNotFound ends the read like Ok(None)
ReadStreamNextEnd(end) == IF end = "ResourceNotFound" THEN "End" ELSE end

\* StreamsView::load; reply.names is the read of `$streams`, reply.all the
\* read of `$all`
Streams_load(v, reply) ==
    LET names == reply.names
        all   == reply.all
    IN
    IF names.open # "Ok" THEN UnwrapErr(v, names.open)
    ELSE IF all.open # "Ok" THEN UnwrapErr(v, all.open)
    ELSE IF \E i \in DOMAIN names.items : ~names.items[i].utf8 THEN Panic(v)
    ELSE IF ReadStreamNextEnd(names.end) # "End" THEN UnwrapErr(v, names.end)
    ELSE IF ReadStreamNextEnd(all.end) # "End" THEN UnwrapErr(v, all.end)
    ELSE Done([v EXCEPT !.model =
                 [StreamsModelDefault EXCEPT
                     !.last_created = LastCreatedOf(names.items),
                     !.recently_changed = RecentlyChangedOf(<<>>, all.items)]])

\* StreamsView::unload, had it left the stage where it was
Streams_unload_keeping_stage(v) ==
    [v EXCEPT !.selected = 0, !.selected_tab = 0, !.scroll = 0,
              !.model = StreamsModel_clear(@)]

\* StreamsView::unload
Streams_unload(v) ==
    [v EXCEPT !.selected = 0, !.selected_tab = 0, !.scroll = 0,
              !.stage = "Main", !.model = StreamsModel_clear(@)]

\* StreamsView::refresh; read is the read of the selected stream
Streams_refresh(v, read) ==
    IF v.model.selected_stream = None THEN Done(v)
    ELSE IF read.open # "Ok" THEN UnwrapErr(v, read.open)
    ELSE IF read.end # "End" THEN UnwrapErr(v, read.end)
    ELSE Done([v EXCEPT !.model.selected_stream_events = read.items])

\* StreamsView::draw for a body `height` rows high
Streams_draw(v, height) ==
    LET events == v.model.selected_stream_events IN
    CASE v.stage = "Popup" ->
            [view |-> v, ok |-> Len(v.buffer) <= PopupInputWidth]
      [] v.stage = "StreamPreview" ->
            IF v.selected >= Len(events) THEN [view |-> v, ok |-> FALSE]
            ELSE LET event == events[v.selected + 1] IN
                 IF event.event = None THEN [view |-> v, ok |-> FALSE]
                 ELSE LET target == Unwrap(event.event)
                          text_height == IF target.is_json THEN target.lines ELSE 1
                      IN
                      IF target.is_json /\ ~target.json_ok
                      THEN [view |-> v, ok |-> FALSE]
                      ELSE [view |-> [v EXCEPT !.scroll =
                                         IF height >= 2 + text_height THEN 0
                                         ELSE IF @ > (2 + text_height) - height
                                              THEN (2 + text_height) - height
                                         ELSE @],
                            ok |-> TRUE]
      [] OTHER -> [view |-> v, ok |-> TRUE]

\* `len - 1` on a usize: with len = 0 it panics when the build checks overflow
\* and wraps to usize::MAX otherwise, so that `selected < len - 1` holds
BelowLast(selected, len) == IF len = 0 THEN TRUE ELSE selected < len - 1

\* the Popup branch, had q closed the Popup as it closes the other stages
Popup_on_key_pressed_quitting(v, key) ==
    CASE key = "Esc" -> Handled([v EXCEPT !.stage = "Main"], "Noop")
      [] key = "Backspace" ->
            Handled([v EXCEPT !.buffer =
                        IF @ = <<>> THEN @ ELSE SubSeq(@, 1, Len(@) - 1)],
                    "Noop")
      [] key = "Enter" ->
            Handled([v EXCEPT !.stage = "Stream",
                              !.model.selected_stream = Some(v.buffer),
                              !.buffer = <<>>],
                    "Noop")
      [] key \in {"q", "Q"} -> Handled([v EXCEPT !.stage = "Main"], "Noop")
      [] key \in Chars -> Handled([v EXCEPT !.buffer = Append(@, key)], "Noop")
      [] OTHER -> Handled(v, "Noop")

\* the branch of StreamsView::on_key_pressed taken in the Popup stage.
\* Chars are ASCII characters; a character that is not ASCII fails the
\* guard `c.is_ascii()` and falls to the arm that does nothing
Popup_on_key_pressed(v, key) ==
    CASE key = "Esc" -> Handled([v EXCEPT !.stage = "Main"], "Noop")
      [] key = "Backspace" ->
            Handled([v EXCEPT !.buffer =
                        IF @ = <<>> THEN @ ELSE SubSeq(@, 1, Len(@) - 1)],
                    "Noop")
      [] key = "Enter" ->
            Handled([v EXCEPT !.stage = "Stream",
                              !.model.selected_stream = Some(v.buffer),
                              !.buffer = <<>>],
                    "Noop")
      [] key \in Chars -> Handled([v EXCEPT !.buffer = Append(@, key)], "Noop")
      [] OTHER -> Handled(v, "Noop")

\* StreamsView::on_key_pressed; checks tells whether `len - 1` panics on
\* overflow here or wraps
Streams_on_key_pressed(v, key, checks) ==
    LET rows == IF v.selected_tab = 0 THEN v.model.last_created
                ELSE v.model.recently_changed
        events == v.model.selected_stream_events
    IN
    IF v.stage = "Popup" THEN Popup_on_key_pressed(v, key)
    ELSE
        CASE key \in {"q", "Q"} ->
                (CASE v.stage = "Main" -> Handled(v, "Exit")
                   [] v.stage = "Popup" -> Handled(v, "Noop")
                   [] v.stage = "Stream" -> Handled([v EXCEPT !.stage = "Main"], "Noop")
                   [] v.stage = "StreamPreview" ->
                         Handled([v EXCEPT !.scroll = 0, !.stage = "Stream"], "Noop"))
          [] key = "/" ->
                Handled(IF v.stage = "Main" THEN [v EXCEPT !.stage = "Popup"] ELSE v,
                        "Noop")
          [] key \in {"Left", "Right"} ->
                Handled([v EXCEPT !.selected_tab = (@ + 1) % 2, !.selected = 0],
                        "Noop")
          [] key = "Up" ->
                IF v.stage = "StreamPreview"
                THEN Handled([v EXCEPT !.scroll = IF @ > 0 THEN @ - 1 ELSE @], "Noop")
                ELSE Handled([v EXCEPT !.selected = IF @ > 0 THEN @ - 1 ELSE @], "Noop")
          [] key = "Down" ->
                (CASE v.stage = "Main" ->
                         IF Len(rows) = 0 /\ checks THEN KeyPanic(v)
                         ELSE Handled([v EXCEPT !.selected =
                                          IF BelowLast(@, Len(rows)) THEN @ + 1 ELSE @],
                                      "Noop")
                   [] v.stage = "Stream" ->
                         IF Len(events) = 0 /\ checks THEN KeyPanic(v)
                         ELSE Handled([v EXCEPT !.selected =
                                          IF BelowLast(@, Len(events)) THEN @ + 1 ELSE @],
                                      "Noop")
                   [] v.stage = "StreamPreview" ->
                         Handled([v EXCEPT !.scroll = @ + 1], "Noop")
                   [] OTHER -> Handled(v, "Noop"))
          [] key = "Enter" ->
                (CASE v.stage = "Main" ->
                         IF v.selected >= Len(rows) THEN KeyPanic(v)
                         ELSE Handled([v EXCEPT !.stage = "Stream",
                                                !.model.selected_stream =
                                                    Some(rows[v.selected + 1]),
                                                !.selected = 0],
                                      "Refresh")
                   [] v.stage = "Stream" ->
                         Handled([v EXCEPT !.stage = "StreamPreview"], "Refresh")
                   [] OTHER -> Handled(v, "Noop"))
          [] OTHER -> Handled(v, "Noop")

(***************************************************************************)
(* Projections catalog and ProjectionsViews                                *)
(*                        (models/projections.rs, views/projections.rs)    *)
(* A projection's name is a number: the BTreeMap keeps the entries in the  *)
(* order of their names.                                                   *)
(***************************************************************************)
\* Projection::default() under the key `name`, reduced to the fields the
\* views' control flow reads
ProjectionDefault == [name |-> 0, query |-> <<>>]

NoProjections == [n \in {} |-> ProjectionDefault]

\* the body of Projections::update's loop, had it built the entry anew
\* from the ProjectionStatus
Projections_update_one_anew(inner, update) ==
    [n \in DOMAIN inner \cup {update.name} |->
        IF n = update.name
        THEN [ProjectionDefault EXCEPT !.name = update.name]
        ELSE inner[n]]

\* the body of Projections::update's loop for one ProjectionStatus
Projections_update_one(inner, update) ==
    LET entry == IF update.name \in DOMAIN inner THEN inner[update.name]
                 ELSE ProjectionDefault
    IN  [n \in DOMAIN inner \cup {update.name} |->
            IF n = update.name
            THEN [entry EXCEPT !.name = update.name]
            ELSE inner[n]]

\* Projections::update
RECURSIVE Projections_update(_, _)
Projections_update(inner, updates) ==
    IF updates = <<>> THEN inner
    ELSE Projections_update(Projections_update_one(inner, updates[1]),
                            Tail(updates))

\* Projections::count
Projections_count(inner) == Cardinality(DOMAIN inner)

\* the key of the idx-th entry (0-based) in the BTreeMap's order
KeyAt(inner, idx) ==
    CHOOSE n \in DOMAIN inner :
        Cardinality({m \in DOMAIN inner : m < n}) = idx

\* Projections::by_idx / by_idx_mut
Projections_by_idx(inner, idx) ==
    IF idx < Projections_count(inner) THEN Some(inner[KeyAt(inner, idx)]) ELSE None

\* ProjectionsViews::default()
ProjectionsDefault == [inner |-> NoProjections, selected |-> 0, stage |-> "Main"]

\* the search of the Detail refresh through the records of the stream
\* `$projections-<name>`, newest first: the first `$ProjectionUpdated`
\* record decides
RECURSIVE FirstUpdated(_)
FirstUpdated(items) ==
    IF items = <<>> THEN None
    ELSE IF items[1].event_type = "$ProjectionUpdated" THEN Some(items[1])
    ELSE FirstUpdated(Tail(items))

\* ProjectionsViews::refresh; reply.list is what listing the projections
\* returns (an error, or the listing), reply.details the read of the
\* selected projection's stream
Projections_refresh(v, reply) ==
    IF v.stage = "Detail" THEN
        IF Projections_by_idx(v.inner, v.selected) = None THEN Panic(v)
        ELSE LET read  == reply.details
                 found == FirstUpdated(read.items)
                 name  == KeyAt(v.inner, v.selected)
             IN
             IF read.open # "Ok" THEN Failed(v, read.open)
             ELSE IF found # None THEN
                 IF ~Unwrap(found).json_ok THEN Panic(v)
                 ELSE Done([v EXCEPT !.inner[name].query = Unwrap(found).query])
             ELSE IF read.end # "End" THEN Failed(v, read.end)
             ELSE Failed(v, "ResourceNotFound")
    ELSE
        IF reply.list.res # "Ok" THEN Failed(v, reply.list.res)
        ELSE Done([v EXCEPT !.inner = Projections_update(@, reply.list.items)])

\* ProjectionsViews::load
Projections_load(v, reply) == Projections_refresh(v, reply)

\* ProjectionsViews::unload
Projections_unload(v) == v

\* ProjectionsViews::draw
Projections_draw(v) ==
    [view |-> v,
     ok |-> v.stage = "Detail" => Projections_by_idx(v.inner, v.selected) # None]

\* ProjectionsViews::on_key_pressed, had q in Detail only reset the
\* selection
Projections_on_key_pressed_staying(v, key) ==
    CASE key \in {"q", "Q"} ->
            IF v.stage = "Detail"
            THEN Handled([v EXCEPT !.selected = 0], "Noop")
            ELSE Handled(v, "Exit")
      [] key = "Up" ->
            Handled([v EXCEPT !.selected = IF @ > 0 THEN @ - 1 ELSE @], "Noop")
      [] key = "Down" ->
            Handled([v EXCEPT !.selected =
                        IF @ + 1 < Projections_count(v.inner) THEN @ + 1 ELSE @],
                    "Noop")
      [] key = "Enter" -> Handled([v EXCEPT !.stage = "Detail"], "Refresh")
      [] OTHER -> Handled(v, "Noop")

\* ProjectionsViews::on_key_pressed, had Down moved the selection without
\* looking at the catalog
Projections_on_key_pressed_past_last(v, key) ==
    CASE key \in {"q", "Q"} ->
            IF v.stage = "Detail"
            THEN Handled([v EXCEPT !.stage = "Main", !.selected = 0], "Noop")
            ELSE Handled(v, "Exit")
      [] key = "Up" ->
            Handled([v EXCEPT !.selected = IF @ > 0 THEN @ - 1 ELSE @], "Noop")
      [] key = "Down" -> Handled([v EXCEPT !.selected = @ + 1], "Noop")
      [] key = "Enter" -> Handled([v EXCEPT !.stage = "Detail"], "Refresh")
      [] OTHER -> Handled(v, "Noop")

\* ProjectionsViews::on_key_pressed, had q left the selection where it was
Projections_on_key_pressed_keeping_selection(v, key) ==
    CASE key \in {"q", "Q"} ->
            IF v.stage = "Detail"
            THEN Handled([v EXCEPT !.stage = "Main"], "Noop")
            ELSE Handled(v, "Exit")
      [] key = "Up" ->
            Handled([v EXCEPT !.selected = IF @ > 0 THEN @ - 1 ELSE @], "Noop")
      [] key = "Down" ->
            Handled([v EXCEPT !.selected =
                        IF @ + 1 < Projections_count(v.inner) THEN @ + 1 ELSE @],
                    "Noop")
      [] key = "Enter" -> Handled([v EXCEPT !.stage = "Detail"], "Refresh")
      [] OTHER -> Handled(v, "Noop")

\* ProjectionsViews::on_key_pressed
Projections_on_key_pressed(v, key) ==
    CASE key \in {"q", "Q"} ->
            IF v.stage = "Detail"
            THEN Handled([v EXCEPT !.stage = "Main", !.selected = 0], "Noop")
            ELSE Handled(v, "Exit")
      [] key = "Up" ->
            Handled([v EXCEPT !.selected = IF @ > 0 THEN @ - 1 ELSE @], "Noop")
      [] key = "Down" ->
            Handled([v EXCEPT !.selected =
                        IF @ + 1 < Projections_count(v.inner) THEN @ + 1 ELSE @],
                    "Noop")
      [] key = "Enter" -> Handled([v EXCEPT !.stage = "Detail"], "Refresh")
      [] OTHER -> Handled(v, "Noop")

(***************************************************************************)
(* Context: the session controller                        (views/mod.rs)   *)
(***************************************************************************)
\* TABS.len()
TabsLen == 4

\* Context::new: the controller owns three views; the model keeps them at
\* positions 1..3, the source at indexes 0..2
ContextNew ==
    [selected_tab |-> 0, last_error |-> None,
     views |-> <<DashboardDefault, StreamsDefault, ProjectionsDefault>>]

\* self.views.get_mut(idx).is_some()
HasView(ctx, idx) == idx + 1 \in DOMAIN ctx.views

\* dyn View dispatch; pos is the view's position in Context::views
View_load(pos, v, env) ==
    CASE pos = 1 -> Dashboard_load(v, env.stats)
      [] pos = 2 -> Streams_load(v, env)
      [] pos = 3 -> Projections_load(v, env)

View_unload(pos, v) ==
    CASE pos = 1 -> Dashboard_unload(v)
      [] pos = 2 -> Streams_unload(v)
      [] pos = 3 -> Projections_unload(v)

View_refresh(pos, v, env) ==
    CASE pos = 1 -> Dashboard_refresh(v, env.stats)
      [] pos = 2 -> Streams_refresh(v, env.events)
      [] pos = 3 -> Projections_refresh(v, env)

View_draw(pos, v, height) ==
    CASE pos = 1 -> Dashboard_draw(v, height)
      [] pos = 2 -> Streams_draw(v, height)
      [] pos = 3 -> Projections_draw(v)

View_on_key_pressed(pos, v, key, checks) ==
    CASE pos = 1 -> Dashboard_on_key_pressed(v, key)
      [] pos = 2 -> Streams_on_key_pressed(v, key, checks)
      [] pos = 3 -> Projections_on_key_pressed(v, key)

\* one entry of the log of the calls a controller operation makes on views
Call(name, idx, out, err) == [call |-> name, view |-> idx, out |-> out, err |-> err]

\* what a controller operation yields: the controller after it, the Request
\* it returns, whether it panicked, and the calls it made on views
Outcome(ctx, req, panic, calls) ==
    [ctx |-> ctx, req |-> req, panic |-> panic, calls |-> calls]

\* Capture, had the controller emptied the slot whenever a call succeeds
Capture_clearing(ctx, idx, r) ==
    [ctx EXCEPT !.views[idx + 1] = r.view,
                !.last_error = IF r.out \in Errors THEN Some(r.out) ELSE None]

\* `if let Err(e) = view.load(&env) { self.last_error = Some(e); }` and the
\* same around refresh: r is what the view's call yielded
Capture(ctx, idx, r) ==
    [ctx EXCEPT !.views[idx + 1] = r.view,
                !.last_error = IF r.out \in Errors THEN Some(r.out) ELSE @]

\* NextTab, had the controller left out the `% TABS.len()`
NextTab_nowrap(i) == i + 1

\* the index Tab moves to
NextTab(i) == (i + 1) % TabsLen

\* the index BackTab moves to
PreviousTab(i) == IF i = 0 THEN TabsLen - 1 ELSE i - 1

\* the body shared by the Tab and BackTab arms of Context::on_key_pressed:
\* unload the active view, move to `target`, load the view there
SwitchTab(ctx, target, env) ==
    LET from     == ctx.selected_tab
        unloaded == IF HasView(ctx, from)
                    THEN [ctx EXCEPT !.views[from + 1] = View_unload(from + 1, @)]
                    ELSE ctx
        moved    == [unloaded EXCEPT !.selected_tab = target]
        c1       == IF HasView(ctx, from)
                    THEN <<Call("unload", from, "Ok", None)>> ELSE <<>>
    IN
    IF ~HasView(moved, target) THEN Outcome(moved, "Noop", FALSE, c1)
    ELSE LET r == View_load(target + 1, moved.views[target + 1], env)
             c2 == Append(c1, Call("load", target, r.out, r.err))
         IN  IF r.out = "panic" THEN Outcome(ctx, "Noop", TRUE, c2)
             ELSE Outcome(Capture(moved, target, r), "Noop", FALSE, c2)

\* Forward, had the controller called the view without `return`, so that the
\* view's Request is dropped and Request::Noop returned
Forward_dropping(ctx, key, checks) ==
    LET idx == ctx.selected_tab IN
    IF ~HasView(ctx, idx) THEN Outcome(ctx, "Noop", FALSE, <<>>)
    ELSE LET r == View_on_key_pressed(idx + 1, ctx.views[idx + 1], key, checks) IN
         IF r.panic
         THEN Outcome(ctx, "Noop", TRUE, <<Call("on_key_pressed", idx, "panic", None)>>)
         ELSE Outcome([ctx EXCEPT !.views[idx + 1] = r.view], "Noop", FALSE,
                      <<Call("on_key_pressed", idx, r.req, None)>>)

\* the last arm of Context::on_key_pressed: the key goes to the active view
Forward(ctx, key, checks) ==
    LET idx == ctx.selected_tab IN
    IF ~HasView(ctx, idx) THEN Outcome(ctx, "Noop", FALSE, <<>>)
    ELSE LET r == View_on_key_pressed(idx + 1, ctx.views[idx + 1], key, checks) IN
         IF r.panic
         THEN Outcome(ctx, "Noop", TRUE, <<Call("on_key_pressed", idx, "panic", None)>>)
         ELSE Outcome([ctx EXCEPT !.views[idx + 1] = r.view], r.req, FALSE,
                      <<Call("on_key_pressed", idx, r.req, None)>>)

\* the test that opens Context::on_key_pressed: an error is shown and the
\* key is q or Q
ErrorShownQuits(ctx, key) == ctx.last_error # None /\ key \in {"q", "Q"}

\* Context::on_key_pressed
Context_on_key_pressed(ctx, key, env, checks) ==
    IF ErrorShownQuits(ctx, key) THEN Outcome(ctx, "Exit", FALSE, <<>>)
    ELSE CASE key = "Tab" -> SwitchTab(ctx, NextTab(ctx.selected_tab), env)
           [] key = "BackTab" -> SwitchTab(ctx, PreviousTab(ctx.selected_tab), env)
           [] OTHER -> Forward(ctx, key, checks)

\* Context::refresh
Context_refresh(ctx, env) ==
    LET idx == ctx.selected_tab IN
    IF ~HasView(ctx, idx) THEN Outcome(ctx, "Noop", FALSE, <<>>)
    ELSE LET r == View_refresh(idx + 1, ctx.views[idx + 1], env)
             c == <<Call("refresh", idx, r.out, r.err)>>
         IN  IF r.out = "panic" THEN Outcome(ctx, "Noop", TRUE, c)
             ELSE Outcome(Capture(ctx, idx, r), "Noop", FALSE, c)

\* Context::init
Context_init(ctx, env) ==
    LET idx == ctx.selected_tab IN
    IF ~HasView(ctx, idx) THEN Outcome(ctx, "Noop", FALSE, <<>>)
    ELSE LET r == View_load(idx + 1, ctx.views[idx + 1], env)
             c == <<Call("load", idx, r.out, r.err)>>
         IN  IF r.out = "panic" THEN Outcome(ctx, "Noop", TRUE, c)
             ELSE Outcome(Capture(ctx, idx, r), "Noop", FALSE, c)

\* Context::draw: the body comes from the active view; the tab bar, the key
\* legend and the error overlay read the state and cannot fail
Context_draw(ctx, height) ==
    LET idx == ctx.selected_tab IN
    IF ~HasView(ctx, idx) THEN Outcome(ctx, "Noop", FALSE, <<>>)
    ELSE LET r == View_draw(idx + 1, ctx.views[idx + 1], height) IN
         IF ~r.ok THEN Outcome(ctx, "Noop", TRUE, <<Call("draw", idx, "panic", None)>>)
         ELSE Outcome([ctx EXCEPT !.views[idx + 1] = r.view], "Noop", FALSE,
                      <<Call("draw", idx, "Ok", None)>>)

(***************************************************************************)
(* What the store can answer                                               *)
(***************************************************************************)
StatsKey(ns, queue, field) == <<ns, "-", "queue", "-", queue, "-", field>>

\* maps of statistics, each as the sequence of its (key, value) pairs
Snapshots ==
    { << <<StatsKey("es", "Indexing", "avgItemsPerSecond"), "12.5">>,
         <<StatsKey("es", "Writer", "length"), "0">>,
         << <<"sys", "-", "freeMem">>, "1024" >> >> }

StatsReplies ==
    {StatsReply("Ok", "Some", m) : m \in Snapshots}
        \cup {StatsReply("Ok", "None", <<>>)}
        \cup {StatsReply(e, "None", <<>>) : e \in Errors}
        \cup {StatsReply("Ok", e, <<>>) : e \in Errors}

\* stream names
StreamNames == {<<"a">>}

\* records of `$streams`: the data is `<revision>@<stream name>`, or is not
\* UTF-8 text
NameRecords ==
    {[utf8 |-> TRUE, text |-> <<"0", "@">> \o n] : n \in StreamNames}
        \cup {[utf8 |-> FALSE, text |-> <<>>]}

\* ResolvedEvents of a stream read with resolve_link_tos: a JSON event
\* whose pretty-printed data takes three lines, and a link whose target no
\* longer exists
EvJson ==
    [event |-> Some([is_json |-> TRUE, json_ok |-> TRUE, lines |-> 3]), link |-> None]
EvDeadLink ==
    [event |-> None, link |-> Some([is_json |-> FALSE, json_ok |-> FALSE, lines |-> 1])]
Events == {EvJson, EvDeadLink}

\* records of a projection's stream `$projections-<name>`
ProjectionRecords ==
    {[event_type |-> "$ProjectionUpdated", json_ok |-> TRUE, query |-> <<"f">>],
     [event_type |-> "$ProjectionUpdated", json_ok |-> FALSE, query |-> <<>>],
     [event_type |-> "$ProjectionCreated", json_ok |-> TRUE, query |-> <<>>]}

\* names of projections
ProjectionNames == 1..MaxRecords

\* what listing the projections returns: an error, or ProjectionStatus
\* records of distinct names
Listing(res, items) == [res |-> res, items |-> items]
Listings ==
    {Listing("Ok", items) :
        items \in {l \in SeqsUpTo([name : ProjectionNames], MaxRecords) :
                      \A i, j \in DOMAIN l : i # j => l[i].name # l[j].name}}
        \cup {Listing(e, <<>>) : e \in Errors}

NoRead == Read("Ok", <<>>, "End")

\* the answers to the calls of one load or refresh
EnvDefault ==
    [stats |-> StatsReply("Ok", "None", <<>>), names |-> NoRead, all |-> NoRead,
     events |-> NoRead, list |-> Listing("Ok", <<>>), details |-> NoRead]

\* the answers that matter to the refresh of the view at position pos
RefreshEnvs(pos, v) ==
    CASE pos = 1 -> {[EnvDefault EXCEPT !.stats = r] : r \in StatsReplies}
      [] pos = 2 ->
            IF v.model.selected_stream = None THEN {EnvDefault}
            ELSE {[EnvDefault EXCEPT !.events = r] :
                     r \in ReadsOf(SeqsUpTo(Events, MaxRecords))}
      [] pos = 3 ->
            IF v.stage = "Detail"
            THEN {[EnvDefault EXCEPT !.details = r] :
                     r \in ReadsOf(SeqsUpTo(ProjectionRecords, MaxRecords))}
            ELSE {[EnvDefault EXCEPT !.list = r] : r \in Listings}
      [] OTHER -> {EnvDefault}

\* the answers that matter to the load of the view at position pos
LoadEnvs(pos, v) ==
    CASE pos = 2 ->
            {[EnvDefault EXCEPT !.names = a, !.all = b] :
                a \in ReadsOf(SeqsUpTo(NameRecords, MaxRecords)),
                b \in ReadsOf(SeqsUpTo(StreamNames, MaxRecords))}
      [] OTHER -> RefreshEnvs(pos, v)

(***************************************************************************)
(* The program: Context::new, Context::init, then the loop                 *)
(*     draw; poll for a key and handle it; refresh when the period is over *)
(***************************************************************************)
VARIABLES
    pc,              \* where the program is: "new", "draw", "poll", "tick",
                     \* "exited", "panicked"
    selected_tab,    \* Context::selected_tab
    last_error,      \* Context::last_error
    views,           \* Context::views
    op,              \* history: the step taken last, its key and its Request
    calls,           \* history: the calls that step made on views, in order
    switches,        \* history: the run of Tab / BackTab presses under way
    model,           \* a model object exercised on its own (Model::from's
                     \* queues, a DashboardView, models::Projections,
                     \* models::PersistentSubscriptions, models::Monitoring,
                     \* a StreamsView, a PersistentSubscriptionView, a
                     \* ProjectionsViews);
                     \* Idle while the whole program runs
    input            \* history: the last call on `model` and its arguments

vars == <<pc, selected_tab, last_error, views, op, calls, switches, model, input>>

\* no model object is exercised on its own
Idle == [kind |-> "none"]

\* the controller as one value
Ctx == [selected_tab |-> selected_tab, last_error |-> last_error, views |-> views]

\* heights of the area a view is drawn in
Heights == {4, 10}

Op(name, key, req) == [name |-> name, key |-> key, req |-> req]

\* the run of tab switches: the index it started from and its keys. A run
\* is one to TabsLen presses of Tab, or one Tab and then one BackTab; any
\* other key press ends it
NoSwitches == [start |-> 0, keys |-> <<>>]
SwitchLog(sw, key, from) ==
    CASE key = "Tab" ->
            IF /\ sw.keys # <<>>
               /\ Len(sw.keys) < TabsLen
               /\ \A i \in DOMAIN sw.keys : sw.keys[i] = "Tab"
            THEN [sw EXCEPT !.keys = Append(@, "Tab")]
            ELSE [start |-> from, keys |-> <<"Tab">>]
      [] key = "BackTab" ->
            IF sw.keys = <<"Tab">> THEN [sw EXCEPT !.keys = Append(@, "BackTab")]
            ELSE NoSwitches
      [] OTHER -> NoSwitches

\* the counters and the search text stay within the bounds of the model
InBounds(ctx) ==
    /\ ctx.views[1].scroll <= MaxScroll
    /\ ctx.views[2].scroll <= MaxScroll
    /\ ctx.views[2].selected <= MaxScroll
    /\ Len(ctx.views[2].buffer) <= MaxBuffer

\* the step's outcome o becomes the next state
Settle(o, next_pc, name, key) ==
    /\ pc' = IF o.panic THEN "panicked" ELSE next_pc
    /\ selected_tab' = o.ctx.selected_tab
    /\ last_error' = o.ctx.last_error
    /\ views' = o.ctx.views
    /\ op' = Op(name, key, o.req)
    /\ calls' = o.calls
    /\ switches' = IF name = "key" /\ ~o.panic
                   THEN SwitchLog(switches, key, selected_tab) ELSE switches
    /\ UNCHANGED <<model, input>>

\* the answers a key press can meet: Tab and BackTab load the view they
\* move to
KeyEnvs(ctx, key) ==
    LET target == IF key = "Tab" THEN NextTab(ctx.selected_tab)
                  ELSE PreviousTab(ctx.selected_tab)
    IN  IF key \in {"Tab", "BackTab"} /\ HasView(ctx, target)
        THEN LoadEnvs(target + 1, ctx.views[target + 1])
        ELSE {EnvDefault}

\* the answers a refresh of the active view can meet
ActiveRefreshEnvs(ctx) ==
    IF HasView(ctx, ctx.selected_tab)
    THEN RefreshEnvs(ctx.selected_tab + 1, ctx.views[ctx.selected_tab + 1])
    ELSE {EnvDefault}

\* the loop's reading of the Request a key press returned: Refresh refreshes
\* the active view at once
Dispatch(o, env) ==
    IF o.panic \/ o.req # "Refresh" THEN o
    ELSE LET r == Context_refresh(o.ctx, env)
         IN  Outcome(r.ctx, o.req, r.panic, o.calls \o r.calls)

\* what handling one key press can come to, over the answers of the store
\* and the two outcomes of an overflowing subtraction
KeyOutcomes(ctx, key) ==
    UNION {LET o == Context_on_key_pressed(ctx, key, env, checks) IN
           {Dispatch(o, env2) :
               env2 \in (IF ~o.panic /\ o.req = "Refresh"
                         THEN ActiveRefreshEnvs(o.ctx) ELSE {EnvDefault})} :
           env \in KeyEnvs(ctx, key), checks \in BOOLEAN}

\* where the loop goes after a key press
AfterKey(req) == IF req = "Exit" THEN "exited" ELSE "tick"

Init ==
    /\ pc = "new"
    /\ selected_tab = ContextNew.selected_tab
    /\ last_error = ContextNew.last_error
    /\ views = ContextNew.views
    /\ op = Op("new", "", "Noop")
    /\ calls = <<>>
    /\ switches = NoSwitches
    /\ model = Idle
    /\ input = Idle

\* Context::init, before the loop
Start ==
    /\ pc = "new"
    /\ \E o \in {Context_init(Ctx, env) :
                    env \in LoadEnvs(selected_tab + 1, views[selected_tab + 1])} :
           Settle(o, "draw", "init", "")

\* terminal.draw at the top of the loop
Draw ==
    /\ pc = "draw"
    /\ \E o \in {Context_draw(Ctx, height) : height \in Heights} :
           Settle(o, "poll", "draw", "")

\* a key arrives within the poll's timeout
KeyEvent ==
    /\ pc = "poll"
    /\ \E key \in Keys : \E d \in KeyOutcomes(Ctx, key) :
            /\ InBounds(d.ctx)
            /\ Settle(d, AfterKey(d.req), "key", key)

\* the poll times out with no key
NoKey ==
    /\ pc = "poll"
    /\ pc' = "tick"
    /\ op' = Op("nokey", "", "Noop")
    /\ calls' = <<>>
    /\ UNCHANGED <<selected_tab, last_error, views, switches, model, input>>

\* the refresh period is over: Context::refresh
PeriodicRefresh ==
    /\ pc = "tick"
    /\ \E o \in {Context_refresh(Ctx, env) : env \in ActiveRefreshEnvs(Ctx)} :
           Settle(o, "draw", "refresh", "")

\* the refresh period is not over yet
NoRefresh ==
    /\ pc = "tick"
    /\ pc' = "draw"
    /\ op' = Op("norefresh", "", "Noop")
    /\ calls' = <<>>
    /\ UNCHANGED <<selected_tab, last_error, views, switches, model, input>>

Next == Start \/ Draw \/ KeyEvent \/ NoKey \/ PeriodicRefresh \/ NoRefresh

Spec == Init /\ [][Next]_vars

(***************************************************************************)
(* The model objects on their own. Each specification below exercises one  *)
(* of them with the controller at rest.                                    *)
(***************************************************************************)
\* the controller is as Context::new left it ...
ControllerAtRest ==
    /\ selected_tab = ContextNew.selected_tab
    /\ last_error = ContextNew.last_error
    /\ views = ContextNew.views
    /\ op = Op("new", "", "Noop")
    /\ calls = <<>>
    /\ switches = NoSwitches

\* ... and stays so
ControllerRests == UNCHANGED <<selected_tab, last_error, views, op, calls, switches>>

(***************************************************************************)
(* Model::from, one (key, value) of the map at a time                      *)
(*                                               (views/dashboard.rs)      *)
(***************************************************************************)
\* most (key, value) pairs in one map of statistics
MaxEntries == 2

\* keys of the statistics map: of one, two, three, four and five sections
StatsKeys ==
    {<<"freeMem">>,
     <<"sys", "-", "freeMem">>,
     <<"es", "-", "queue">>,
     <<"es", "-", "queue", "-", "Indexing">>,
     <<"sys", "-", "drive", "-", "C", "-", "length">>,
     StatsKey("es", "Indexing", "avgItemsPerSecond"),
     StatsKey("es", "Indexing", "length"),
     StatsKey("es", "Writer", "length"),
     StatsKey("es", "Writer", "busy"),
     <<"es", "-", "queue", "-", "Index", "-", "Committer", "-", "length">>}

StatsValues == {"12.5", "0"}

\* maps of statistics: a HashMap holds a key once and iterates in any order
StatsMaps ==
    {m \in SeqsUpTo(StatsKeys \X StatsValues, MaxEntries) :
        \A i, j \in DOMAIN m : i # j => m[i][1] # m[j][1]}

\* the pair the loop of Model::from takes next
NextEntry == input.entries[input.at + 1]

InitModelFrom ==
    /\ pc = "from"
    /\ ControllerAtRest
    /\ model = [panic |-> FALSE, queues |-> NoQueues]
    /\ input \in {[entries |-> m, at |-> 0] : m \in StatsMaps}

\* one turn of `for (key, value) in map`
FromEntry ==
    /\ pc = "from"
    /\ input.at < Len(input.entries)
    /\ model' = ModelFromStep(model, NextEntry[1], NextEntry[2])
    /\ input' = [input EXCEPT !.at = @ + 1]
    /\ pc' = IF model'.panic THEN "panicked" ELSE "from"
    /\ ControllerRests

NextModelFrom == FromEntry

SpecModelFrom == InitModelFrom /\ [][NextModelFrom]_vars

(***************************************************************************)
(* DashboardView::refresh, poll after poll          (views/dashboard.rs)   *)
(***************************************************************************)
\* keys of the snapshots polled: two fields of one queue, one field of
\* another, a key that names no queue, and a key too short to parse
DashboardKeys ==
    {StatsKey("es", "Indexing", "avgItemsPerSecond"),
     StatsKey("es", "Indexing", "length"),
     StatsKey("es", "Writer", "length"),
     <<"sys", "-", "freeMem">>,
     <<"es", "-", "queue", "-", "Indexing">>}

\* what the statistics endpoint answers to one poll
DashboardReplies ==
    {StatsReply("Ok", "Some", m) :
        m \in {m \in StatsMaps : \A i \in DOMAIN m : m[i][1] \in DashboardKeys}}
        \cup {StatsReply("Ok", "None", <<>>)}
        \cup {StatsReply(e, "None", <<>>) : e \in Errors}
        \cup {StatsReply("Ok", e, <<>>) : e \in Errors}

InitDashboard ==
    /\ pc = "dashboard"
    /\ ControllerAtRest
    /\ model = DashboardDefault
    /\ input = Idle

\* one call of DashboardView::refresh; the history keeps the reply and the
\* names of the queues the view held when it was called
DashboardRefresh ==
    /\ pc = "dashboard"
    /\ \E reply \in DashboardReplies :
          LET r == Dashboard_refresh(model, reply) IN
          /\ model' = r.view
          /\ input' = [reply |-> reply, held |-> DOMAIN model.queues]
          /\ pc' = IF r.out = "Ok" THEN "dashboard" ELSE "panicked"
    /\ ControllerRests

NextDashboard == DashboardRefresh

SpecDashboard == InitDashboard /\ [][NextDashboard]_vars

(***************************************************************************)
(* models::Projections and the rate it derives    (models/projections.rs)  *)
(*                                                                         *)
(* Of a Projection the fields `update` computes with are kept: the name,   *)
(* events_processed and rate; the others are copied from the update as     *)
(* they come. Instants are whole ticks of the clock. An f32 is the ratio   *)
(* num / den in lowest terms, den > 0; den = 0 stands for the values that  *)
(* are not finite: NaN (num = 0), +inf (num = 1), -inf (num = -1).         *)
(***************************************************************************)
\* latest reading of Projections::clock
MaxClock == 3
\* most ProjectionStatus records in one call of update
MaxBatch == 2

RECURSIVE Gcd(_, _)
Gcd(a, b) == IF b = 0 THEN a ELSE Gcd(b, a % b)

Abs(n) == IF n < 0 THEN -n ELSE n
Sign(n) == IF n < 0 THEN -1 ELSE IF n > 0 THEN 1 ELSE 0

\* n as f32 / d as f32
F32Div(n, d) ==
    IF d = 0 THEN [num |-> Sign(n), den |-> 0]
    ELSE LET g == Gcd(Abs(n), Abs(d)) IN
         [num |-> (Sign(d) * n) \div g, den |-> Abs(d) \div g]

\* 0.0
F32Zero == [num |-> 0, den |-> 1]

IsFinite(x) == x.den # 0

\* Projection::default()
RatedDefault == [name |-> 0, events_processed |-> 0, rate |-> F32Zero]

\* Projections as `new` leaves it
RatedNew ==
    [inner |-> [n \in {} |-> RatedDefault],
     last_time |-> None,
     previous |-> [n \in {} |-> 0]]

\* the body of update's loop, had the rate been the count over the time
\* between the calls
Projections_update_entry_total(m, update, now, last) ==
    LET name  == update.name
        old   == IF name \in DOMAIN m.inner THEN m.inner[name] ELSE RatedDefault
        rated == IF name \in DOMAIN m.previous
                 THEN [old EXCEPT !.rate =
                          F32Div(update.events_processed_after_restart, now - last)]
                 ELSE old
        entry == [rated EXCEPT
                     !.name = name,
                     !.events_processed = update.events_processed_after_restart]
    IN  [m EXCEPT
            !.inner = [n \in DOMAIN m.inner \cup {name} |->
                          IF n = name THEN entry ELSE m.inner[n]],
            !.previous = [n \in DOMAIN m.previous \cup {name} |->
                             IF n = name
                             THEN update.events_processed_after_restart
                             ELSE m.previous[n]]]

\* the body of update's loop, had the catalog been rebuilt from the listing:
\* only the entry of the status at hand is kept
Projections_update_entry_rebuilding(m, update, now, last) ==
    LET name  == update.name
        old   == IF name \in DOMAIN m.inner THEN m.inner[name] ELSE RatedDefault
        rated == IF name \in DOMAIN m.previous
                 THEN [old EXCEPT !.rate =
                          F32Div(update.events_processed_after_restart
                                     - m.previous[name],
                                 now - last)]
                 ELSE old
        entry == [rated EXCEPT
                     !.name = name,
                     !.events_processed = update.events_processed_after_restart]
    IN  [m EXCEPT
            !.inner = [n \in {name} |-> entry],
            !.previous = [n \in DOMAIN m.previous \cup {name} |->
                             IF n = name
                             THEN update.events_processed_after_restart
                             ELSE m.previous[n]]]

\* the body of update's loop for one ProjectionStatus: `previous` keeps, of
\* the status last seen under a name, the counter the rate is taken from
Projections_update_entry(m, update, now, last) ==
    LET name  == update.name
        old   == IF name \in DOMAIN m.inner THEN m.inner[name] ELSE RatedDefault
        rated == IF name \in DOMAIN m.previous
                 THEN [old EXCEPT !.rate =
                          F32Div(update.events_processed_after_restart
                                     - m.previous[name],
                                 now - last)]
                 ELSE old
        entry == [rated EXCEPT
                     !.name = name,
                     !.events_processed = update.events_processed_after_restart]
    IN  [m EXCEPT
            !.inner = [n \in DOMAIN m.inner \cup {name} |->
                          IF n = name THEN entry ELSE m.inner[n]],
            !.previous = [n \in DOMAIN m.previous \cup {name} |->
                             IF n = name
                             THEN update.events_processed_after_restart
                             ELSE m.previous[n]]]

\* update's loop, had last_time been written at the end of every turn, so
\* that the turns after the first divide by the time since this call began
RECURSIVE Projections_update_loop_stamping(_, _, _, _)
Projections_update_loop_stamping(m, updates, now, last) ==
    IF updates = <<>> THEN m
    ELSE Projections_update_loop_stamping(
             Projections_update_entry(m, updates[1], now, last),
             Tail(updates), now, now)

\* the loop of Projections::update: every turn works with the same `now`
\* and `last`
RECURSIVE Projections_update_loop(_, _, _, _)
Projections_update_loop(m, updates, now, last) ==
    IF updates = <<>> THEN m
    ELSE Projections_update_loop(
             Projections_update_entry(m, updates[1], now, last),
             Tail(updates), now, last)

\* Projections::update, called when the clock reads `now`
Projections_update_at(m, updates, now) ==
    LET last == IF m.last_time = None THEN now ELSE Unwrap(m.last_time) IN
    [Projections_update_loop(m, updates, now, last) EXCEPT !.last_time = Some(now)]

\* names and counters of the statuses a listing carries
RatedNames == {1, 2}
EventCounts == {0, 3}

\* the listings: a name may come more than once
Batches ==
    SeqsUpTo([name : RatedNames, events_processed_after_restart : EventCounts],
             MaxBatch)

InitProjections ==
    /\ pc = "projections"
    /\ ControllerAtRest
    /\ model = RatedNew
    /\ input = Idle

\* history: for every name `previous` holds, the clock reading of the call
\* that stored its status there
SuppliedSoFar == IF input = Idle THEN [n \in {} |-> 0] ELSE input.supplied

\* one call of Projections::update; the clock never runs backwards
ProjectionsUpdate ==
    /\ pc = "projections"
    /\ \E now \in 0..MaxClock, updates \in Batches :
          /\ \A t \in model.last_time : t <= now
          /\ model' = Projections_update_at(model, updates, now)
          /\ input' = [now |-> now, updates |-> updates,
                       supplied |->
                           [n \in DOMAIN model'.previous |->
                               IF \E i \in DOMAIN updates : updates[i].name = n
                               THEN now ELSE SuppliedSoFar[n]]]
    /\ UNCHANGED pc
    /\ ControllerRests

NextProjections == ProjectionsUpdate

SpecProjections == InitProjections /\ [][NextProjections]_vars

(***************************************************************************)
(* models::PersistentSubscriptions and the behind-by metrics               *)
(*                                     (models/persistent_subscriptions.rs)*)
(*                                                                         *)
(* Of a PersistentSubscription the fields compute_behind_metrics writes    *)
(* are kept, with the source and the average rate of the descriptor they   *)
(* were computed from. An f64 is a ratio as an f32 is above. Revisions are *)
(* far below 2^63, where `as i64` changes nothing; a Position is a number. *)
(***************************************************************************)
\* n as f64 / x, for an integer n and an f64 x
F64Quot(n, x) ==
    IF x.den = 0 THEN (IF x.num = 0 THEN F32Div(0, 0) ELSE F32Zero)
    ELSE F32Div(n * x.den, x.num)

\* f64::round of p / q, q > 0: to the nearest integer, halves away from zero
RoundHalfAway(p, q) == Sign(p) * ((2 * Abs(p) + q) \div (2 * q))

\* (x * 100f64) cut to an integer / 100f64
Round2_truncating(x) ==
    IF ~IsFinite(x) THEN x
    ELSE F32Div(Sign(x.num) * ((100 * Abs(x.num)) \div x.den), 100)

\* (x * 100f64).round() / 100f64
Round2(x) ==
    IF ~IsFinite(x) THEN x ELSE F32Div(RoundHalfAway(100 * x.num, x.den), 100)

\* Option<u64>::unwrap_or_default
UnwrapOrDefault(o) == IF o = None THEN 0 ELSE Unwrap(o)

\* PersistentSubscription::default()
SubscriptionDefault ==
    [stream_name |-> "",
     last_known_event_position |-> None,
     last_checkpointed_event_position |-> None,
     behind_by_messages |-> 0,
     behind_by_time |-> F32Zero,
     average_items_per_second |-> F32Zero]

\* the `$all` branch, had it compared the revisions
AllMetrics_by_revision(current, info) ==
    [current EXCEPT
        !.behind_by_time = F32Div(-1, 1),
        !.last_known_event_position = info.last_known_position,
        !.last_checkpointed_event_position = info.last_checkpointed_position,
        !.behind_by_messages =
            IF info.last_known_event_revision = info.last_checkpointed_event_revision
            THEN 0 ELSE -1]

\* compute_behind_metrics, the branch of the source `$all`
AllMetrics(current, info) ==
    [current EXCEPT
        !.behind_by_time = F32Div(-1, 1),
        !.last_known_event_position = info.last_known_position,
        !.last_checkpointed_event_position = info.last_checkpointed_position,
        !.behind_by_messages =
            IF info.last_known_position = info.last_checkpointed_position
            THEN 0 ELSE -1]

\* the branch of a named stream, had it kept what the division gives
StreamMetrics_unclamped(current, info) ==
    LET last_checkpointed_rev ==
            UnwrapOrDefault(info.last_checkpointed_event_revision)
        last_known_event_rev ==
            UnwrapOrDefault(info.last_known_event_revision)
        messages == (last_known_event_rev - last_checkpointed_rev) + 1
        time == Round2(F64Quot(messages, info.average_per_second))
    IN  [current EXCEPT
            !.last_known_event_position = info.last_known_event_revision,
            !.last_checkpointed_event_position =
                info.last_checkpointed_event_revision,
            !.behind_by_messages = messages,
            !.behind_by_time = time]

\* compute_behind_metrics, the branch of a named stream
StreamMetrics(current, info) ==
    LET last_checkpointed_rev ==
            UnwrapOrDefault(info.last_checkpointed_event_revision)
        last_known_event_rev ==
            UnwrapOrDefault(info.last_known_event_revision)
        messages == (last_known_event_rev - last_checkpointed_rev) + 1
        time == Round2(F64Quot(messages, info.average_per_second))
    IN  [current EXCEPT
            !.last_known_event_position = info.last_known_event_revision,
            !.last_checkpointed_event_position =
                info.last_checkpointed_event_revision,
            !.behind_by_messages = messages,
            !.behind_by_time = IF ~IsFinite(time) THEN F32Zero ELSE time]

\* compute_behind_metrics
compute_behind_metrics(current, info) ==
    IF info.event_source = "$all" THEN AllMetrics(current, info)
    ELSE StreamMetrics(current, info)

\* the key of a descriptor's entry: format!("{}/{}", event_source, group_name)
SubscriptionKey(info) == <<info.event_source, "/", info.group_name>>

\* the body of update's loop for one descriptor
Subscriptions_update_one(inner, p) ==
    LET key   == SubscriptionKey(p)
        old   == IF key \in DOMAIN inner THEN inner[key] ELSE SubscriptionDefault
        entry == [compute_behind_metrics(old, p) EXCEPT
                     !.stream_name = p.event_source,
                     !.average_items_per_second = p.average_per_second]
    IN  [k \in DOMAIN inner \cup {key} |-> IF k = key THEN entry ELSE inner[k]]

\* PersistentSubscriptions::update
RECURSIVE Subscriptions_update(_, _)
Subscriptions_update(inner, ps) ==
    IF ps = <<>> THEN inner
    ELSE Subscriptions_update(Subscriptions_update_one(inner, ps[1]), Tail(ps))

\* average rates a descriptor reports
Averages == {F32Zero, F32Div(5, 1), F32Div(7, 1)}

\* descriptors of a group on the stream `orders`
StreamInfos ==
    [event_source : {"orders"}, group_name : {"g"},
     last_known_position : {None}, last_checkpointed_position : {None},
     last_known_event_revision : {None, Some(100)},
     last_checkpointed_event_revision : {None, Some(1), Some(95)},
     average_per_second : Averages]

\* descriptors of a group on `$all`
AllInfos ==
    [event_source : {"$all"}, group_name : {"g"},
     last_known_position : {None, Some(2)},
     last_checkpointed_position : {None, Some(2)},
     last_known_event_revision : {None}, last_checkpointed_event_revision : {None},
     average_per_second : {F32Zero, F32Div(5, 1)}]

Infos == StreamInfos \cup AllInfos

InitSubscriptions ==
    /\ pc = "subscriptions"
    /\ ControllerAtRest
    /\ model = [k \in {} |-> SubscriptionDefault]
    /\ input = Idle

\* one call of PersistentSubscriptions::update
SubscriptionsUpdate ==
    /\ pc = "subscriptions"
    /\ \E inner \in {Subscriptions_update(model, ps) :
                        ps \in SeqsUpTo(Infos, MaxBatch)} : model' = inner
    /\ UNCHANGED <<pc, input>>
    /\ ControllerRests

NextSubscriptions == SubscriptionsUpdate

SpecSubscriptions == InitSubscriptions /\ [][NextSubscriptions]_vars

(***************************************************************************)
(* models::Monitoring                               (models/monitoring.rs) *)
(*                                                                         *)
(* The fields `update` computes with are kept; free_mem, drive and         *)
(* server_version are copied from the statistics as they come, and         *)
(* writer_checkpoints is never written. A sample is <<time, value>>.       *)
(***************************************************************************)
GRAPH_TIME_LIMIT == 20

\* most polls of the cluster in one session
MaxPolls == 22
\* most members in the gossip of one poll
MaxMembers == 2

\* Monitoring::default()
MonitoringDefault ==
    [increment |-> 0,
     last_epoch_number |-> None,
     last_writer_checkpoint |-> None,
     cpu_load |-> <<>>,
     bytes_written |-> <<>>,
     leader |-> None,
     out_of_sync_cluster_counter |-> 0,
     truncation_counter |-> 0,
     elections |-> 0,
     no_leader_counter |-> 0,
     unresponsive_nodes |-> 0,
     last_bytes_written |-> None]

\* find_leader, had it taken the first member whatever its role
find_leader_first(members) ==
    IF members = <<>> THEN None ELSE Some(members[1])

\* find_leader: the first member of the gossip that is the leader
find_leader(members) ==
    LET leaders == {i \in DOMAIN members : members[i].state = "Leader"} IN
    IF leaders = {} THEN None
    ELSE Some(members[CHOOSE i \in leaders : \A j \in leaders : i <= j])

\* the window after update's check of its length, had the check dropped
\* the sample just pushed
Evict_newest(window) ==
    IF Len(window) >= GRAPH_TIME_LIMIT
    THEN SubSeq(window, 1, Len(window) - 1) ELSE window

\* the window after update's check of its length: Vec::remove(0)
Evict(window) ==
    IF Len(window) >= GRAPH_TIME_LIMIT THEN Tail(window) ELSE window

\* the election counter, had the first leader observed counted as elected
ElectionsAfter_first_counts(elections, last_epoch_number, leader) ==
    IF last_epoch_number # Some(leader.epoch_number)
    THEN elections + 1 ELSE elections

\* the election counter after a poll that found `leader`
ElectionsAfter(elections, last_epoch_number, leader) ==
    IF last_epoch_number # None /\ Unwrap(last_epoch_number) # leader.epoch_number
    THEN elections + 1 ELSE elections

\* the truncation counter, had a checkpoint that stands still counted
TruncationsAfter_or_equal(count, last_writer_checkpoint, leader) ==
    IF /\ last_writer_checkpoint # None
       /\ Unwrap(last_writer_checkpoint) >= leader.writer_checkpoint
    THEN count + 1 ELSE count

\* the truncation counter after a poll that found `leader`
TruncationsAfter(count, last_writer_checkpoint, leader) ==
    IF /\ last_writer_checkpoint # None
       /\ Unwrap(last_writer_checkpoint) > leader.writer_checkpoint
    THEN count + 1 ELSE count

\* the out-of-sync counter, had one follower behind been enough
OutOfSyncAfter_one(count, last_writer_checkpoint, gossip) ==
    LET out_of_sync ==
            {i \in DOMAIN gossip :
                /\ gossip[i].state = "Follower"
                /\ last_writer_checkpoint # None
                /\ gossip[i].writer_checkpoint < Unwrap(last_writer_checkpoint)}
    IN  IF last_writer_checkpoint # None /\ Cardinality(out_of_sync) > 0
        THEN count + 1 ELSE count

\* the out-of-sync counter after a poll that found a leader
OutOfSyncAfter(count, last_writer_checkpoint, gossip) ==
    LET out_of_sync ==
            {i \in DOMAIN gossip :
                /\ gossip[i].state = "Follower"
                /\ last_writer_checkpoint # None
                /\ gossip[i].writer_checkpoint < Unwrap(last_writer_checkpoint)}
    IN  IF last_writer_checkpoint # None /\ Cardinality(out_of_sync) > 1
        THEN count + 1 ELSE count

\* the bytes-written sample, had it been the difference itself
BytesSample_undivided(last_bytes_written, written_bytes, increment) ==
    IF last_bytes_written # None
    THEN F32Div(written_bytes - Unwrap(last_bytes_written), 1)
    ELSE F32Zero

\* the value of the bytes-written sample of a poll
BytesSample(last_bytes_written, written_bytes, increment) ==
    IF last_bytes_written # None
    THEN F32Div(written_bytes - Unwrap(last_bytes_written),
                (increment + 2) - increment)
    ELSE F32Zero

\* Monitoring::update
Monitoring_update(m, stats, gossip) ==
    LET unresponsive == {i \in DOMAIN gossip : ~gossip[i].is_alive}
        sample == BytesSample(m.last_bytes_written, stats.written_bytes, m.increment)
        pushed == [m EXCEPT
                      !.cpu_load = Append(@, <<m.increment, stats.cpu>>),
                      !.unresponsive_nodes = Cardinality(unresponsive),
                      !.bytes_written = Append(@, <<m.increment, sample>>),
                      !.last_bytes_written = Some(stats.written_bytes)]
        found  == find_leader(gossip)
        polled ==
            IF found = None
            THEN [pushed EXCEPT !.no_leader_counter = @ + 1]
            ELSE LET leader == Unwrap(found)
                 IN  [pushed EXCEPT
                         !.leader = Some([epoch_number |-> leader.epoch_number,
                                          writer_checkpoint |-> leader.writer_checkpoint]),
                         !.elections = ElectionsAfter(@, m.last_epoch_number, leader),
                         !.out_of_sync_cluster_counter =
                             OutOfSyncAfter(@, m.last_writer_checkpoint, gossip),
                         !.truncation_counter =
                             TruncationsAfter(@, m.last_writer_checkpoint, leader),
                         !.last_writer_checkpoint = Some(leader.writer_checkpoint),
                         !.last_epoch_number = Some(leader.epoch_number)]
    IN  [polled EXCEPT
            !.increment = @ + 2,
            !.cpu_load = Evict(@),
            !.bytes_written = Evict(@)]

\* Monitoring::time_bounds, had it slid the window from the first poll on
time_bounds_sliding(m) == <<m.increment - GRAPH_TIME_LIMIT, m.increment>>

\* Monitoring::time_bounds
time_bounds(m) ==
    IF m.increment <= GRAPH_TIME_LIMIT THEN <<0, GRAPH_TIME_LIMIT>>
    ELSE <<m.increment - GRAPH_TIME_LIMIT, m.increment>>

\* members of the cluster as the gossip describes them: leaders of two
\* epochs and a follower
Members ==
    [state : {"Leader"}, epoch_number : {2, 3},
     writer_checkpoint : {5}, is_alive : {TRUE}]
        \cup [state : {"Follower"}, epoch_number : {2},
              writer_checkpoint : {5}, is_alive : {TRUE}]

Gossips == SeqsUpTo(Members, MaxMembers)

\* the statistics of a poll: the bytes written so far never decrease
StatsAfter(m) ==
    [cpu : {50},
     written_bytes : {b \in {0, 8} : \A l \in m.last_bytes_written : l <= b}]

InitMonitoring ==
    /\ pc = "monitoring"
    /\ ControllerAtRest
    /\ model = MonitoringDefault
    /\ input = Idle

\* the polls made so far, as the history counts them
PollsSoFar == IF input = Idle THEN 0 ELSE input.polls

\* one poll of the cluster: Monitoring::update; the history keeps the leader
\* of the gossip, the counter of written bytes and the number of the poll
MonitoringUpdate ==
    /\ pc = "monitoring"
    /\ model.increment < 2 * MaxPolls
    /\ \E stats \in StatsAfter(model), gossip \in Gossips :
          /\ model' = Monitoring_update(model, stats, gossip)
          /\ input' = [leader |-> find_leader(gossip),
                       written_bytes |-> stats.written_bytes,
                       polls |-> PollsSoFar + 1]
    /\ UNCHANGED pc
    /\ ControllerRests

NextMonitoring == MonitoringUpdate

SpecMonitoring == InitMonitoring /\ [][NextMonitoring]_vars

(***************************************************************************)
(* models::Monitoring and the health of the cluster: a few polls of a      *)
(* cluster whose leader, epoch and checkpoints change                      *)
(***************************************************************************)
\* most polls of the cluster while its health is watched
MaxRounds == 4
\* most nodes in the gossip of one of these polls
MaxNodes == 3

\* the nodes: a leader of epoch 2 at checkpoint 5, a leader of epoch 3 at
\* checkpoint 6, a follower at checkpoint 4 and a follower at checkpoint 6
Nodes ==
    {[state |-> "Leader", epoch_number |-> 2, writer_checkpoint |-> 5, is_alive |-> TRUE],
     [state |-> "Leader", epoch_number |-> 3, writer_checkpoint |-> 6, is_alive |-> TRUE],
     [state |-> "Follower", epoch_number |-> 2, writer_checkpoint |-> 4, is_alive |-> TRUE],
     [state |-> "Follower", epoch_number |-> 2, writer_checkpoint |-> 6, is_alive |-> TRUE]}

ClusterGossips == SeqsUpTo(Nodes, MaxNodes)

\* the statistics of these polls: an idle node
IdleStats == [cpu |-> 50, written_bytes |-> 0]

InitCluster ==
    /\ pc = "cluster"
    /\ ControllerAtRest
    /\ model = MonitoringDefault
    /\ input = Idle

\* one poll of the cluster: Monitoring::update; the history keeps the gossip
ClusterUpdate ==
    /\ pc = "cluster"
    /\ model.increment < 2 * MaxRounds
    /\ \E gossip \in ClusterGossips :
          /\ model' = Monitoring_update(model, IdleStats, gossip)
          /\ input' = [gossip |-> gossip]
    /\ UNCHANGED pc
    /\ ControllerRests

NextCluster == ClusterUpdate

SpecCluster == InitCluster /\ [][NextCluster]_vars

(***************************************************************************)
(* A StreamsView driven through the View trait on its own                  *)
(*                                            (views/stream_browser.rs)    *)
(***************************************************************************)
\* the call made last on the view: its key and Request (on_key_pressed),
\* how it came out, and the reads it made of the store, in order
ViewCall(call, key, req, out, reads) ==
    [call |-> call, key |-> key, req |-> req, out |-> out, reads |-> reads]

InitStreams ==
    /\ pc = "streams"
    /\ ControllerAtRest
    /\ model = StreamsDefault
    /\ input = Idle

\* View::load
StreamsLoad ==
    /\ pc = "streams"
    /\ \E env \in LoadEnvs(2, model) :
          LET r == Streams_load(model, env) IN
          /\ model' = r.view
          /\ input' = ViewCall("load", "", "Noop", r.out, <<env.names, env.all>>)
          /\ pc' = IF r.out = "panic" THEN "panicked" ELSE pc
    /\ ControllerRests

\* View::unload
StreamsUnload ==
    /\ pc = "streams"
    /\ model' = Streams_unload(model)
    /\ input' = ViewCall("unload", "", "Noop", "Ok", <<>>)
    /\ UNCHANGED pc
    /\ ControllerRests

\* View::refresh
StreamsRefresh ==
    /\ pc = "streams"
    /\ \E env \in RefreshEnvs(2, model) :
          LET r == Streams_refresh(model, env.events) IN
          /\ model' = r.view
          /\ input' = ViewCall("refresh", "", "Noop", r.out,
                               IF model.model.selected_stream = None THEN <<>>
                               ELSE <<env.events>>)
          /\ pc' = IF r.out = "panic" THEN "panicked" ELSE pc
    /\ ControllerRests

\* View::draw
StreamsDraw ==
    /\ pc = "streams"
    /\ \E height \in Heights :
          LET r == Streams_draw(model, height) IN
          /\ model' = r.view
          /\ input' = ViewCall("draw", "", "Noop",
                               IF r.ok THEN "Ok" ELSE "panic", <<>>)
          /\ pc' = IF r.ok THEN pc ELSE "panicked"
    /\ ControllerRests

\* printable characters that are not ASCII
NonAsciiChars == {"e-acute"}

\* View::on_key_pressed
StreamsKey ==
    /\ pc = "streams"
    /\ \E key \in Keys \cup NonAsciiChars, checks \in BOOLEAN :
          LET r == Streams_on_key_pressed(model, key, checks) IN
          /\ r.view.scroll <= MaxScroll
          /\ r.view.selected <= MaxScroll
          /\ Len(r.view.buffer) <= MaxBuffer
          /\ model' = r.view
          /\ input' = ViewCall("on_key_pressed", key, r.req,
                               IF r.panic THEN "panic" ELSE "Ok", <<>>)
          /\ pc' = IF r.panic THEN "panicked" ELSE pc
    /\ ControllerRests

NextStreams ==
    \/ StreamsLoad
    \/ StreamsUnload
    \/ StreamsRefresh
    \/ StreamsDraw
    \/ StreamsKey

SpecStreams == InitStreams /\ [][NextStreams]_vars

(***************************************************************************)
(* PersistentSubscriptionView driven through the View trait on its own     *)
(*                                   (views/persistent_subscriptions.rs)   *)
(***************************************************************************)
\* the rows of the Actions popup draw_main builds
ChoicesLen == 5

\* PersistentSubscriptionView::default(); the two TableStates only mirror
\* the selections for the widget library and are left out
PersistentSubscriptionViewDefault ==
    [stage |-> "Main", selected |-> 0, selected_choices |-> 0,
     model |-> [k \in {} |-> SubscriptionDefault]]

\* PersistentSubscriptionView::on_key_pressed, had Enter opened the detail
\* from whichever row of the popup
PersistentSubscriptionView_on_key_pressed_any_row(v, key) ==
    CASE key \in {"q", "Q"} ->
            IF v.stage \in {"Choices", "Detail"}
            THEN Handled([v EXCEPT !.stage = "Main", !.selected = 0,
                                   !.selected_choices = 0], "Noop")
            ELSE Handled(v, "Exit")
      [] key = "Enter" ->
            Handled(CASE v.stage = "Main" -> [v EXCEPT !.stage = "Choices"]
                      [] v.stage = "Choices" -> [v EXCEPT !.stage = "Detail"]
                      [] OTHER -> v,
                    "Noop")
      [] key = "Up" ->
            Handled(CASE v.stage = "Main" ->
                            [v EXCEPT !.selected = IF @ > 0 THEN @ - 1 ELSE @]
                      [] v.stage = "Choices" ->
                            [v EXCEPT !.selected_choices = IF @ > 0 THEN @ - 1 ELSE @]
                      [] OTHER -> v,
                    "Noop")
      [] key = "Down" ->
            Handled(CASE v.stage = "Main" -> [v EXCEPT !.selected = @ + 1]
                      [] v.stage = "Choices" -> [v EXCEPT !.selected_choices = @ + 1]
                      [] OTHER -> v,
                    "Noop")
      [] OTHER -> Handled(v, "Noop")

\* PersistentSubscriptionView::on_key_pressed
PersistentSubscriptionView_on_key_pressed(v, key) ==
    CASE key \in {"q", "Q"} ->
            IF v.stage \in {"Choices", "Detail"}
            THEN Handled([v EXCEPT !.stage = "Main", !.selected = 0,
                                   !.selected_choices = 0], "Noop")
            ELSE Handled(v, "Exit")
      [] key = "Enter" ->
            Handled(CASE v.stage = "Main" -> [v EXCEPT !.stage = "Choices"]
                      [] v.stage = "Choices" ->
                            IF v.selected_choices = 2
                            THEN [v EXCEPT !.stage = "Detail"] ELSE v
                      [] OTHER -> v,
                    "Noop")
      [] key = "Up" ->
            Handled(CASE v.stage = "Main" ->
                            [v EXCEPT !.selected = IF @ > 0 THEN @ - 1 ELSE @]
                      [] v.stage = "Choices" ->
                            [v EXCEPT !.selected_choices = IF @ > 0 THEN @ - 1 ELSE @]
                      [] OTHER -> v,
                    "Noop")
      [] key = "Down" ->
            Handled(CASE v.stage = "Main" -> [v EXCEPT !.selected = @ + 1]
                      [] v.stage = "Choices" -> [v EXCEPT !.selected_choices = @ + 1]
                      [] OTHER -> v,
                    "Noop")
      [] OTHER -> Handled(v, "Noop")

\* PersistentSubscriptionView::refresh; reply is what listing the persistent
\* subscriptions returns
PersistentSubscriptionView_refresh(v, reply) ==
    IF v.stage = "Main" THEN
        IF reply.res # "Ok" THEN Failed(v, reply.res)
        ELSE Done([v EXCEPT !.model = Subscriptions_update(@, reply.items)])
    ELSE Done(v)

\* PersistentSubscriptionView::load
PersistentSubscriptionView_load(v, reply) == PersistentSubscriptionView_refresh(v, reply)

\* PersistentSubscriptionView::draw. draw_main keeps the selected row of the
\* popup within its rows. draw_detail writes no field; it unwraps
\* `self.model.get(self.selected)` and the settings of what it finds, a
\* method models/persistent_subscriptions.rs does not define, so whether it
\* panics is left open (passes)
PersistentSubscriptionView_draw(v, passes) ==
    CASE v.stage = "Choices" ->
            [view |-> [v EXCEPT !.selected_choices =
                          IF @ >= ChoicesLen THEN ChoicesLen - 1 ELSE @],
             ok |-> TRUE]
      [] v.stage = "Detail" -> [view |-> v, ok |-> passes]
      [] OTHER -> [view |-> v, ok |-> TRUE]

\* what listing the persistent subscriptions returns: an error, or the
\* descriptors
SubscriptionListings ==
    {Listing("Ok", ps) :
        ps \in SeqsUpTo({i \in Infos : i.average_per_second = F32Zero
                                       /\ i.last_known_position = None
                                       /\ i.last_known_event_revision = None
                                       /\ i.last_checkpointed_position = None
                                       /\ i.last_checkpointed_event_revision = None},
                        MaxRecords)}
        \cup {Listing(e, <<>>) : e \in Errors}

InitSubscriptionView ==
    /\ pc = "subscription view"
    /\ ControllerAtRest
    /\ model = PersistentSubscriptionViewDefault
    /\ input = Idle

\* View::load
SubscriptionViewLoad ==
    /\ pc = "subscription view"
    /\ \E reply \in SubscriptionListings :
          LET r == PersistentSubscriptionView_load(model, reply) IN
          /\ model' = r.view
          /\ input' = ViewCall("load", "", "Noop", r.out, <<>>)
    /\ UNCHANGED pc
    /\ ControllerRests

\* View::refresh
SubscriptionViewRefresh ==
    /\ pc = "subscription view"
    /\ \E reply \in SubscriptionListings :
          LET r == PersistentSubscriptionView_refresh(model, reply) IN
          /\ model' = r.view
          /\ input' = ViewCall("refresh", "", "Noop", r.out, <<>>)
    /\ UNCHANGED pc
    /\ ControllerRests

\* View::draw
SubscriptionViewDraw ==
    /\ pc = "subscription view"
    /\ \E passes \in BOOLEAN :
          LET r == PersistentSubscriptionView_draw(model, passes) IN
          /\ model' = r.view
          /\ input' = ViewCall("draw", "", "Noop",
                               IF r.ok THEN "Ok" ELSE "panic", <<>>)
          /\ pc' = IF r.ok THEN pc ELSE "panicked"
    /\ ControllerRests

\* View::on_key_pressed; the counters stay within the bounds of the model,
\* the selected row of the popup within one past its rows
SubscriptionViewKey ==
    /\ pc = "subscription view"
    /\ \E key \in Keys :
          LET r == PersistentSubscriptionView_on_key_pressed(model, key) IN
          /\ r.view.selected <= MaxScroll
          /\ r.view.selected_choices <= ChoicesLen
          /\ model' = r.view
          /\ input' = ViewCall("on_key_pressed", key, r.req, "Ok", <<>>)
    /\ UNCHANGED pc
    /\ ControllerRests

NextSubscriptionView ==
    \/ SubscriptionViewLoad
    \/ SubscriptionViewRefresh
    \/ SubscriptionViewDraw
    \/ SubscriptionViewKey

SpecSubscriptionView == InitSubscriptionView /\ [][NextSubscriptionView]_vars

(***************************************************************************)
(* A ProjectionsViews driven through the View trait on its own             *)
(*                                                 (views/projections.rs)  *)
(***************************************************************************)
\* what listing the projections returns here: an error, or ProjectionStatus
\* records of distinct names, one more than MaxRecords at most, so that a
\* row below the first can be selected
CatalogListings ==
    {Listing("Ok", items) :
        items \in {l \in SeqsUpTo([name : 1..(MaxRecords + 1)], MaxRecords + 1) :
                      \A i, j \in DOMAIN l : i # j => l[i].name # l[j].name}}
        \cup {Listing(e, <<>>) : e \in Errors}

\* the answers a load or a refresh of the view v can meet
CatalogEnvs(v) ==
    IF v.stage = "Detail"
    THEN {[EnvDefault EXCEPT !.details = r] :
             r \in ReadsOf(SeqsUpTo(ProjectionRecords, MaxRecords))}
    ELSE {[EnvDefault EXCEPT !.list = r] : r \in CatalogListings}

\* the answer the view v reads out of env
CatalogRead(v, env) == IF v.stage = "Detail" THEN env.details ELSE env.list

InitProjectionsViews ==
    /\ pc = "projections view"
    /\ ControllerAtRest
    /\ model = ProjectionsDefault
    /\ input = Idle

\* View::load
ProjectionsViewsLoad ==
    /\ pc = "projections view"
    /\ \E env \in CatalogEnvs(model) :
          LET r == Projections_load(model, env) IN
          /\ model' = r.view
          /\ input' = ViewCall("load", "", "Noop", r.out, <<CatalogRead(model, env)>>)
          /\ pc' = IF r.out = "panic" THEN "panicked" ELSE pc
    /\ ControllerRests

\* View::unload
ProjectionsViewsUnload ==
    /\ pc = "projections view"
    /\ model' = Projections_unload(model)
    /\ input' = ViewCall("unload", "", "Noop", "Ok", <<>>)
    /\ UNCHANGED pc
    /\ ControllerRests

\* View::refresh
ProjectionsViewsRefresh ==
    /\ pc = "projections view"
    /\ \E env \in CatalogEnvs(model) :
          LET r == Projections_refresh(model, env) IN
          /\ model' = r.view
          /\ input' = ViewCall("refresh", "", "Noop", r.out,
                               <<CatalogRead(model, env)>>)
          /\ pc' = IF r.out = "panic" THEN "panicked" ELSE pc
    /\ ControllerRests

\* View::draw
ProjectionsViewsDraw ==
    /\ pc = "projections view"
    /\ LET r == Projections_draw(model) IN
          /\ model' = r.view
          /\ input' = ViewCall("draw", "", "Noop",
                               IF r.ok THEN "Ok" ELSE "panic", <<>>)
          /\ pc' = IF r.ok THEN pc ELSE "panicked"
    /\ ControllerRests

\* View::on_key_pressed
ProjectionsViewsKey ==
    /\ pc = "projections view"
    /\ \E key \in Keys :
          LET r == Projections_on_key_pressed(model, key) IN
          /\ model' = r.view
          /\ input' = ViewCall("on_key_pressed", key, r.req, "Ok", <<>>)
    /\ UNCHANGED pc
    /\ ControllerRests

NextProjectionsViews ==
    \/ ProjectionsViewsLoad
    \/ ProjectionsViewsUnload
    \/ ProjectionsViewsRefresh
    \/ ProjectionsViewsDraw
    \/ ProjectionsViewsKey

SpecProjectionsViews == InitProjectionsViews /\ [][NextProjectionsViews]_vars

(***************************************************************************)
(* The two catalogs, Projections and PersistentSubscriptions, each fed     *)
(* listing after listing                                                   *)
(*            (models/projections.rs, models/persistent_subscriptions.rs)  *)
(***************************************************************************)
\* the keys of the descriptors a listing of subscriptions carries
ListedKeys(ps) == {SubscriptionKey(ps[i]) : i \in DOMAIN ps}

InitCatalogs ==
    /\ pc \in {"projections", "subscriptions catalog"}
    /\ ControllerAtRest
    /\ model = IF pc = "projections" THEN RatedNew
               ELSE [k \in {} |-> SubscriptionDefault]
    /\ input = Idle

\* one call of PersistentSubscriptions::update; the history keeps the keys
\* the listing carried
SubscriptionsCatalogUpdate ==
    /\ pc = "subscriptions catalog"
    /\ \E ps \in SeqsUpTo(Infos, MaxBatch) :
          /\ model' = Subscriptions_update(model, ps)
          /\ input' = [listed |-> ListedKeys(ps)]
    /\ UNCHANGED pc
    /\ ControllerRests

NextCatalogs ==
    \/ ProjectionsUpdate
    \/ SubscriptionsCatalogUpdate

SpecCatalogs == InitCatalogs /\ [][NextCatalogs]_vars

(***************************************************************************)
(* MonitoringView, and the three views that return their fetch errors,     *)
(* each driven through the View trait on its own   (views/monitoring.rs)   *)
(***************************************************************************)
\* MonitoringView::default(); stats_iter tells whether the statistics
\* stream has been opened. server_version, a field of Monitoring that only
\* load writes, is kept beside the fields update computes with
MonitoringViewDefault ==
    [model |-> MonitoringDefault, server_version |-> <<>>, stats_iter |-> FALSE]

\* what the store answers to one refresh of the MonitoringView: the gossip
\* (res, members), the call opening the statistics stream (open), then its
\* next item, fetched and parsed (next, stats)
MonitoringReply(res, members, open, next, stats) ==
    [res |-> res, members |-> members, open |-> open, next |-> next, stats |-> stats]

\* MonitoringView::refresh, had it applied the gossip as soon as it was read
MonitoringView_refresh_eager(v, reply) ==
    IF reply.res # "Ok" THEN Failed(v, reply.res)
    ELSE IF ~v.stats_iter /\ reply.open # "Ok"
    THEN Failed([v EXCEPT !.model = Monitoring_update(@, reply.stats, reply.members)],
                reply.open)
    ELSE LET opened == [v EXCEPT !.stats_iter = TRUE] IN
         IF reply.next # "Ok"
         THEN Failed([opened EXCEPT
                         !.model = Monitoring_update(@, reply.stats, reply.members)],
                     reply.next)
         ELSE Done([opened EXCEPT
                       !.model = Monitoring_update(@, reply.stats, reply.members)])

\* MonitoringView::refresh
MonitoringView_refresh(v, reply) ==
    IF reply.res # "Ok" THEN Failed(v, reply.res)
    ELSE IF ~v.stats_iter /\ reply.open # "Ok" THEN Failed(v, reply.open)
    ELSE LET opened == [v EXCEPT !.stats_iter = TRUE] IN
         IF reply.next # "Ok" THEN Failed(opened, reply.next)
         ELSE Done([opened EXCEPT
                       !.model = Monitoring_update(@, reply.stats, reply.members)])

\* MonitoringView::load; version is what the server answers about its
\* version: an error, or the version, empty when it gives none
MonitoringView_load(v, version, reply) ==
    IF version.res # "Ok" THEN Failed(v, version.res)
    ELSE MonitoringView_refresh([v EXCEPT !.server_version = version.text], reply)

\* the answers a refresh of the view v can meet
MonitoringReplies(v) ==
    {MonitoringReply(res, IF res = "Ok" THEN members ELSE <<>>, open, next, stats) :
        res \in {"Ok"} \cup Errors, members \in Gossips,
        open \in {"Ok", "Transport"}, next \in {"Ok", "Transport"},
        stats \in StatsAfter(v.model)}

\* the answers about the server's version
VersionReplies ==
    {[res |-> "Ok", text |-> <<>>], [res |-> "Ok", text |-> <<"2", "2">>],
     [res |-> "Transport", text |-> <<>>]}

InitMonitoringView ==
    /\ pc = "monitoring view"
    /\ ControllerAtRest
    /\ model = MonitoringViewDefault
    /\ input = Idle

\* View::load
MonitoringViewLoad ==
    /\ pc = "monitoring view"
    /\ model.model.increment < 2 * MaxRounds
    /\ \E version \in VersionReplies, reply \in MonitoringReplies(model) :
          LET r == MonitoringView_load(model, version, reply) IN
          /\ model' = r.view
          /\ input' = ViewCall("load", "", "Noop", r.out, <<>>)
    /\ UNCHANGED pc
    /\ ControllerRests

\* View::refresh
MonitoringViewRefresh ==
    /\ pc = "monitoring view"
    /\ model.model.increment < 2 * MaxRounds
    /\ \E reply \in MonitoringReplies(model) :
          LET r == MonitoringView_refresh(model, reply) IN
          /\ model' = r.view
          /\ input' = ViewCall("refresh", "", "Noop", r.out, <<>>)
    /\ UNCHANGED pc
    /\ ControllerRests

\* View::draw: it reads the model and writes nothing
MonitoringViewDraw ==
    /\ pc = "monitoring view"
    /\ input' = ViewCall("draw", "", "Noop", "Ok", <<>>)
    /\ UNCHANGED <<pc, model>>
    /\ ControllerRests

InitRefreshes ==
    \/ InitMonitoringView
    \/ InitProjectionsViews
    \/ InitSubscriptionView

NextRefreshes ==
    \/ MonitoringViewLoad
    \/ MonitoringViewRefresh
    \/ MonitoringViewDraw
    \/ NextProjectionsViews
    \/ NextSubscriptionView

SpecRefreshes == InitRefreshes /\ [][NextRefreshes]_vars

(***************************************************************************)
(* The three views with stages, each driven through the View trait on its  *)
(* own                                                                     *)
(***************************************************************************)
InitStaged ==
    \/ InitStreams
    \/ InitProjectionsViews
    \/ InitSubscriptionView

NextStaged ==
    \/ NextStreams
    \/ NextProjectionsViews
    \/ NextSubscriptionView

SpecStaged == InitStaged /\ [][NextStaged]_vars

(***************************************************************************)
(* Properties                                                              *)
(***************************************************************************)
\* the step under way handles a key press
KeyStep == pc = "poll" /\ op'.name = "key"

\* the step under way is the periodic Context::refresh
RefreshStep == pc = "tick" /\ op'.name = "refresh"

\* the step made a load or a refresh that completed with Ok
FetchSucceeded(log) ==
    \E i \in DOMAIN log : log[i].call \in {"load", "refresh"} /\ log[i].out = "Ok"

\* C1 - error containment: whenever a view's load or refresh (called from
\* init, Tab, Shift-Tab or Context::refresh) runs into an error, the error
\* is in the controller's error slot afterwards and the program has not
\* panicked.
C1_ErrorContained ==
    \A i \in DOMAIN calls :
        (calls[i].call \in {"load", "refresh"} /\ calls[i].err # None)
            => (pc # "panicked" /\ last_error = calls[i].err)

\* C2 - while an error is stored, a key press is either q / Q, which
\* returns Exit, or it is not processed: the selected tab, every view and
\* the error slot stay as they are and no call is made on any view.
C2_OnlyQuitWhileError ==
    [][(KeyStep /\ last_error # None) =>
          IF op'.key \in {"q", "Q"}
          THEN op'.req = "Exit" /\ pc' = "exited"
          ELSE /\ selected_tab' = selected_tab
               /\ views' = views
               /\ last_error' = last_error
               /\ calls' = <<>>
               /\ pc' # "panicked"]_vars

\* C3 as claimed - once an error is stored, a step in which a load or a
\* refresh completes successfully leaves the error slot empty.
C3_SuccessClears ==
    [][(last_error # None /\ FetchSucceeded(calls')) => last_error' = None]_vars

\* C3 as amended - once an error is stored, no step empties the error slot:
\* a later load or refresh, successful or not, leaves an error in it.
C3_ErrorStays == [][last_error # None => last_error' # None]_vars

\* an error is still stored right after a load or refresh that succeeded
C3_Witness == last_error # None /\ pc # "panicked" /\ FetchSucceeded(calls)

\* C4 - tab switching wraps in both directions: Tab moves the index i to
\* (i + 1) mod N and BackTab to (i - 1) mod N, N being the number of tabs;
\* a Tab followed by a BackTab is back at the index the Tab started from,
\* and so are N Tabs in a row.
C4_TabsWrap ==
    [][(KeyStep /\ pc' # "panicked") =>
          /\ op'.key = "Tab" => selected_tab' = (selected_tab + 1) % TabsLen
          /\ op'.key = "BackTab" =>
                selected_tab' = (selected_tab + TabsLen - 1) % TabsLen
          /\ (op'.key = "Tab" /\ selected_tab = TabsLen - 1) => selected_tab' = 0
          /\ (op'.key = "BackTab" /\ selected_tab = 0) =>
                selected_tab' = TabsLen - 1
          /\ switches'.keys = <<"Tab", "BackTab">> =>
                selected_tab' = switches'.start
          /\ Len(switches'.keys) = TabsLen => selected_tab' = switches'.start]_vars

\* N Tabs in a row have been pressed and the index is where they started
C4_Witness ==
    /\ Len(switches.keys) = TabsLen
    /\ \A i \in DOMAIN switches.keys : switches.keys[i] = "Tab"
    /\ op.name = "key" /\ op.key = "Tab"
    /\ selected_tab = switches.start

\* C5 - every Tab or BackTab makes exactly two calls on views, in this
\* order: unload of the view that was active, then load of the view at the
\* new index; a load that fails leaves its error in the error slot, the key
\* returns Noop and the program has not panicked; the views at other
\* indexes are untouched.
C5_SwitchCalls ==
    [][(KeyStep /\ op'.key \in {"Tab", "BackTab"}) =>
          /\ pc' # "panicked"
          /\ op'.req = "Noop"
          /\ Len(calls') = 2
          /\ calls'[1] = Call("unload", selected_tab, "Ok", None)
          /\ calls'[2].call = "load" /\ calls'[2].view = selected_tab'
          /\ calls'[2].err # None => last_error' = calls'[2].err
          /\ \A j \in DOMAIN views :
                j \notin {selected_tab + 1, selected_tab' + 1}
                    => views'[j] = views[j]]_vars

C7_KeysNeverFail ==
    \A i \in DOMAIN calls :
        calls[i].call = "on_key_pressed" => calls[i].out \in Request

\* C8 - no call of a view's draw fails: when a draw is due, a stream browser
\* in StreamPreview has its selected index inside the fetched event list,
\* and a projections view in Detail has its selected index at an existing
\* catalog entry.
C8_DrawNeverFails ==
    /\ \A i \in DOMAIN calls : calls[i].call = "draw" => calls[i].out = "Ok"
    /\ (pc = "draw" /\ selected_tab = 1 /\ views[2].stage = "StreamPreview")
          => views[2].selected < Len(views[2].model.selected_stream_events)
    /\ (pc = "draw" /\ selected_tab = 2 /\ views[3].stage = "Detail")
          => Projections_by_idx(views[3].inner, views[3].selected) # None

\* C9 - every key press that moves a view into a data-dependent stage
\* returns Request::Refresh: the stream browser entering Stream from Main or
\* from the search Popup, or entering StreamPreview, and the projections
\* view entering Detail.
C9_DataStageRefreshes ==
    [][(KeyStep /\ op'.key \notin {"Tab", "BackTab"}) =>
          /\ (/\ selected_tab = 1
              /\ views[2].stage \in {"Main", "Popup"}
              /\ views'[2].stage = "Stream") => op'.req = "Refresh"
          /\ (/\ selected_tab = 1
              /\ views[2].stage # "StreamPreview"
              /\ views'[2].stage = "StreamPreview") => op'.req = "Refresh"
          /\ (/\ selected_tab = 2
              /\ views[3].stage # "Detail"
              /\ views'[3].stage = "Detail") => op'.req = "Refresh"]_vars

\* C10 - the periodic Context::refresh calls refresh on the view at the
\* active index and on no other, leaves every other view and the index as
\* they are, and a refresh that fails leaves its error in the error slot,
\* the program still running.
C10_RefreshActiveOnly ==
    [][RefreshStep =>
          /\ selected_tab' = selected_tab
          /\ Len(calls') = IF HasView(Ctx, selected_tab) THEN 1 ELSE 0
          /\ \A i \in DOMAIN calls' :
                /\ calls'[i].call = "refresh" /\ calls'[i].view = selected_tab
                /\ calls'[i].err # None =>
                      (pc' # "panicked" /\ last_error' = calls'[i].err)
          /\ \A j \in DOMAIN views :
                j # selected_tab + 1 => views'[j] = views[j]]_vars

(***************************************************************************)
(* Properties of Model::from                                               *)
(***************************************************************************)
\* the step under way is one turn of Model::from's loop
FromStep == pc = "from" /\ input'.at = input.at + 1

\* the key has fewer than four sections, or its second section is not
\* `queue`
Malformed(key) ==
    LET sections == Split(key) IN
    Len(sections) < 4 \/ sections[2] # <<"queue">>

\* the key is <namespace>-queue-<queueName>-<field>
WellFormed(key) ==
    LET sections == Split(key) IN
    Len(sections) = 4 /\ sections[2] = <<"queue">>

\* C11 - a key that is not of the shape <namespace>-queue-<queueName>-<field>
\* (fewer than four dash-separated sections, or a second section other than
\* `queue`) is ignored: it creates no queue, changes none, and parsing does
\* not fail on it.
C11_MalformedIgnored ==
    [][FromStep /\ Malformed(NextEntry[1])
          => model' = model /\ pc' # "panicked"]_vars

\* C12 - a key <namespace>-queue-<queueName>-<field> makes the queue keyed by
\* queueName exist; when the field is a recognized one, exactly that field of
\* the queue becomes the mapped value; every other field of the queue keeps
\* its value (the default, the empty string, when the key created the queue);
\* an unrecognized field changes no field; no other queue changes and parsing
\* does not fail.
C12_FieldSet ==
    [][FromStep /\ WellFormed(NextEntry[1])
          => LET name  == Split(NextEntry[1])[3]
                 field == Split(NextEntry[1])[4]
                 before == IF name \in DOMAIN model.queues
                           THEN model.queues[name] ELSE QueueDefault
             IN  /\ pc' # "panicked"
                 /\ DOMAIN model'.queues = DOMAIN model.queues \cup {name}
                 /\ \A n \in DOMAIN model.queues \ {name} :
                        model'.queues[n] = model.queues[n]
                 /\ \A f \in QueueFields :
                        model'.queues[name][f] =
                            IF field = <<f>> THEN NextEntry[2] ELSE before[f]]_vars

\* the map {"es-queue-Indexing-avgItemsPerSecond": "12.5"} has been parsed:
\* one queue, Indexing, with avgItemsPerSecond 12.5 and every other field
\* empty
C12_Witness ==
    /\ pc = "from"
    /\ input = [entries |-> << <<StatsKey("es", "Indexing", "avgItemsPerSecond"),
                                 "12.5">> >>,
                at |-> 1]
    /\ DOMAIN model.queues = {<<"Indexing">>}
    /\ model.queues[<<"Indexing">>] =
           [f \in QueueFields |-> IF f = "avgItemsPerSecond" THEN "12.5" ELSE ""]

(***************************************************************************)
(* Properties of DashboardView::refresh                                    *)
(***************************************************************************)
\* the step under way is a refresh that succeeds
RefreshSucceeds == pc = "dashboard" /\ pc' = "dashboard" /\ input' # Idle

\* the mapping a reply carries: the default, empty one when the statistics
\* stream has ended
Latest(reply) == IF reply.next = "Some" THEN reply.entries ELSE <<>>

\* the queues a mapping names
QueuesNamed(entries) ==
    {Split(entries[i][1])[3] : i \in {i \in DOMAIN entries : WellFormed(entries[i][1])}}

\* C13 - the dashboard's model is a pure function of the latest snapshot:
\* after each successful refresh the queues are what parsing the latest
\* mapping alone yields, whatever the model held before; a queue of an
\* earlier snapshot that the latest mapping does not name is gone; an empty
\* mapping gives the empty model, and is no error.
C13_LatestSnapshotOnly ==
    [][/\ RefreshSucceeds =>
            /\ model'.queues = Model_from(Latest(input'.reply)).queues
            /\ DOMAIN model'.queues = QueuesNamed(Latest(input'.reply))
            /\ Latest(input'.reply) = <<>> => model'.queues = NoQueues
       /\ (/\ pc = "dashboard"
           /\ input' # Idle
           /\ input'.reply.open = "Ok"
           /\ input'.reply.next \notin Errors
           /\ Latest(input'.reply) = <<>>) => pc' = "dashboard"]_vars

\* a refresh has just succeeded on a snapshot that lacks a queue the
\* snapshot before it had, and the model no longer has that queue
C13_Witness ==
    /\ pc = "dashboard"
    /\ input # Idle
    /\ input.held = {<<"Indexing">>, <<"Writer">>}
    /\ input.reply.next = "Some"
    /\ QueuesNamed(input.reply.entries) = {<<"Writer">>}
    /\ DOMAIN model.queues = {<<"Writer">>}

(***************************************************************************)
(* Properties of Projections::update                                       *)
(***************************************************************************)
\* the step under way is a call of Projections::update
UpdateStep == pc = "projections" /\ input' # Idle

\* the places of a batch that carry the name
Carrying(updates, name) == {i \in DOMAIN updates : updates[i].name = name}

\* the counter the batch gives for a name it carries once
CountOf(updates, name) ==
    updates[CHOOSE i \in Carrying(updates, name) : TRUE].events_processed_after_restart

\* C14 - for a name that two successive calls of update carry (once each),
\* at elapsed times t1 < t2 and with events-processed counts c1 and c2, the
\* entry's rate after the second call is (c2 - c1) / (t2 - t1).
C14_RateIsDelta ==
    [][UpdateStep /\ input # Idle /\ input.now < input'.now
          => \A name \in RatedNames :
                (/\ Cardinality(Carrying(input.updates, name)) = 1
                 /\ Cardinality(Carrying(input'.updates, name)) = 1)
                => LET rate == model'.inner[name].rate
                       c1 == CountOf(input.updates, name)
                       c2 == CountOf(input'.updates, name)
                   IN  /\ IsFinite(rate)
                       /\ rate.num * (input'.now - input.now)
                              = (c2 - c1) * rate.den]_vars

\* projection 1 went from 0 to 3 events within two ticks of the clock, and
\* its rate is 3/2
C14_Witness ==
    /\ pc = "projections"
    /\ input # Idle
    /\ input.updates = <<[name |-> 1, events_processed_after_restart |-> 3]>>
    /\ model.last_time = Some(MaxClock)
    /\ model.inner[1].rate = [num |-> 3, den |-> 2]

\* C15 - the call of update that first carries a name never writes its
\* rate: after that call the rate is still the initial 0, even when the
\* batch lists the name twice, and nothing is divided by the zero time
\* delta of the very first call.
C15_FirstCallWritesNoRate ==
    [][UpdateStep
          => \A name \in RatedNames :
                (/\ name \notin DOMAIN model.inner
                 /\ Carrying(input'.updates, name) # {})
                => model'.inner[name].rate = F32Zero]_vars

(***************************************************************************)
(* Properties of PersistentSubscriptions::update                           *)
(***************************************************************************)
\* the entries of subscriptions on `$all`, and on named streams
AllEntries == {k \in DOMAIN model : model[k].stream_name = "$all"}
StreamEntries == {k \in DOMAIN model : model[k].stream_name # "$all"}

\* C16 - for a descriptor whose source is `$all`, behind-by-time is -1
\* whatever the descriptor holds, and behind-by-messages is 0 when the
\* last-known position equals the last-checkpointed position and -1
\* otherwise.
C16_AllSentinels ==
    pc = "subscriptions" =>
        \A k \in AllEntries :
            /\ model[k].behind_by_time = [num |-> -1, den |-> 1]
            /\ model[k].behind_by_messages =
                   IF model[k].last_known_event_position
                          = model[k].last_checkpointed_event_position
                   THEN 0 ELSE -1

\* a subscription on `$all` with a last known position and no checkpoint,
\* and a rate of 5 a second: -1 and -1
C16_Witness ==
    /\ pc = "subscriptions"
    /\ \E k \in AllEntries :
          /\ model[k].last_known_event_position = Some(2)
          /\ model[k].last_checkpointed_event_position = None
          /\ model[k].average_items_per_second = F32Div(5, 1)
          /\ model[k].behind_by_messages = -1
          /\ model[k].behind_by_time = [num |-> -1, den |-> 1]

\* C17 - for a descriptor on a named stream, behind-by-messages is
\* (lastKnownRevision - lastCheckpointedRevision) + 1, a missing revision
\* counting as 0, and behind-by-time is behind-by-messages divided by the
\* average rate, rounded to two decimals: a whole number of hundredths at
\* most half a hundredth away from the quotient (for a rate that is a
\* number other than 0).
C17_BehindBy ==
    pc = "subscriptions" =>
        \A k \in StreamEntries :
            LET e        == model[k]
                known    == IF e.last_known_event_position = None THEN 0
                            ELSE Unwrap(e.last_known_event_position)
                chk      == IF e.last_checkpointed_event_position = None THEN 0
                            ELSE Unwrap(e.last_checkpointed_event_position)
                rate     == e.average_items_per_second
                time     == e.behind_by_time
            IN  /\ e.behind_by_messages = (known - chk) + 1
                /\ (rate.den # 0 /\ rate.num # 0) =>
                      /\ time.den # 0
                      /\ (100 * time.num) % time.den = 0
                      /\ 200 * Abs(time.num * rate.num
                                     - e.behind_by_messages * rate.den * time.den)
                             <= Abs(time.den * rate.num)

\* stream `orders`, known 100, checkpointed 95, rate 5: 6 messages and 1.2
\* seconds behind
C17_Witness ==
    /\ pc = "subscriptions"
    /\ \E k \in StreamEntries :
          /\ model[k].stream_name = "orders"
          /\ model[k].last_known_event_position = Some(100)
          /\ model[k].last_checkpointed_event_position = Some(95)
          /\ model[k].average_items_per_second = [num |-> 5, den |-> 1]
          /\ model[k].behind_by_messages = 6
          /\ model[k].behind_by_time = [num |-> 6, den |-> 5]

\* C18 - after any sequence of update calls every entry's behind-by-time is
\* a finite number, and whenever an entry's average rate is 0 its
\* behind-by-time is exactly 0.
C18_ZeroRateZeroTime ==
    pc = "subscriptions" =>
        \A k \in DOMAIN model :
            /\ model[k].behind_by_time.den # 0
            /\ model[k].average_items_per_second = F32Zero
                   => model[k].behind_by_time = F32Zero

\* C18, amended - after any sequence of update calls every entry's
\* behind-by-time is a finite number; whenever the average rate of an entry
\* on a named stream is 0 its behind-by-time is exactly 0, be
\* behind-by-messages zero, positive or negative; an entry on `$all` has -1
\* whatever its rate.
C18_FiniteTime ==
    pc = "subscriptions" =>
        /\ \A k \in DOMAIN model : model[k].behind_by_time.den # 0
        /\ \A k \in StreamEntries :
               model[k].average_items_per_second = F32Zero
                   => model[k].behind_by_time = F32Zero
        /\ \A k \in AllEntries :
               model[k].behind_by_time = [num |-> -1, den |-> 1]

\* an entry on a named stream with a rate of 0 and 101 messages behind has
\* behind-by-time 0, next to an entry on `$all` with a rate of 0 and -1
C18_Witness ==
    /\ pc = "subscriptions"
    /\ \E k \in StreamEntries :
          /\ model[k].average_items_per_second = F32Zero
          /\ model[k].behind_by_messages = 101
          /\ model[k].behind_by_time = F32Zero
    /\ \E k \in AllEntries :
          /\ model[k].average_items_per_second = F32Zero
          /\ model[k].behind_by_time = [num |-> -1, den |-> 1]

(***************************************************************************)
(* Properties of Monitoring::update                                        *)
(***************************************************************************)
\* the samples of a window are the most recent ones, in the order they
\* arrived: the sample taken at poll n carries the time 2n, and the window
\* ends with the sample of the last poll
MostRecent(window) ==
    \A i \in DOMAIN window :
        window[i][1] = model.increment - 2 * (Len(window) - i + 1)

\* a sample has left the window
Evicted(window) == 2 * Len(window) < model.increment

\* C19 - after any number of update calls each rolling window (CPU load,
\* bytes written) holds at most 20 samples, and they are the most recent
\* samples in arrival order: a sample that was evicted is older than every
\* sample kept, and none is evicted before the window has filled up.
C19_RollingWindows ==
    pc = "monitoring" =>
        /\ Len(model.cpu_load) <= GRAPH_TIME_LIMIT
        /\ Len(model.bytes_written) <= GRAPH_TIME_LIMIT
        /\ MostRecent(model.cpu_load)
        /\ MostRecent(model.bytes_written)
        /\ Evicted(model.cpu_load) => Len(model.cpu_load) >= GRAPH_TIME_LIMIT - 1
        /\ Evicted(model.bytes_written)
               => Len(model.bytes_written) >= GRAPH_TIME_LIMIT - 1

\* after 22 polls the windows have lost their three oldest samples
C19_Witness ==
    /\ pc = "monitoring"
    /\ model.increment = 44
    /\ Evicted(model.cpu_load) /\ Evicted(model.bytes_written)
    /\ model.cpu_load[1][1] = 6
    /\ model.bytes_written[1][1] = 6

\* the step under way is a poll of the cluster
PollStep == pc = "monitoring" /\ model'.increment = model.increment + 2

\* C20 - the election counter goes up by exactly 1 on each poll whose leader
\* epoch differs from the leader epoch recorded last, be there polls with no
\* leader in between, and by 0 on every other poll: a poll with no leader,
\* a poll whose leader has the epoch recorded last, and the first poll that
\* observes a leader.
C20_Elections ==
    [][PollStep =>
          model'.elections - model.elections =
              IF \E leader \in input'.leader, last \in model.last_epoch_number :
                     leader.epoch_number # last
              THEN 1 ELSE 0]_vars

\* a first leader of epoch 2, polls without a leader, then a leader of epoch
\* 3: one election
C20_Witness ==
    /\ pc = "monitoring"
    /\ model.elections = 1
    /\ model.no_leader_counter = 2
    /\ model.increment = 8
    /\ model.last_epoch_number = Some(3)
    /\ \E leader \in input.leader : leader.epoch_number = 3

(***************************************************************************)
(* Properties of Monitoring::update: the health of the cluster             *)
(***************************************************************************)
\* the step under way is a poll of the cluster whose health is watched
ClusterStep == pc = "cluster" /\ model'.increment = model.increment + 2

\* the places of a gossip whose member has the role
InRole(gossip, role) == {i \in DOMAIN gossip : gossip[i].state = role}

\* the leader a gossip that has one names: the first member in that role
LeaderOf(gossip) ==
    gossip[CHOOSE i \in InRole(gossip, "Leader") :
               \A j \in InRole(gossip, "Leader") : i <= j]

\* C21 - an update whose gossip has no member in the Leader role increments
\* the no-leader counter by exactly 1 and leaves last_epoch_number,
\* last_writer_checkpoint and the election, out-of-sync and truncation
\* counters unchanged.
C21_NoLeaderFrame ==
    [][ClusterStep /\ InRole(input'.gossip, "Leader") = {}
          => /\ model'.no_leader_counter = model.no_leader_counter + 1
             /\ model'.last_epoch_number = model.last_epoch_number
             /\ model'.last_writer_checkpoint = model.last_writer_checkpoint
             /\ model'.elections = model.elections
             /\ model'.out_of_sync_cluster_counter = model.out_of_sync_cluster_counter
             /\ model'.truncation_counter = model.truncation_counter]_vars

\* after an election and a truncation, a poll of two followers and no
\* leader: the counters and the recorded epoch and checkpoint are as they
\* were
C21_Witness ==
    /\ pc = "cluster"
    /\ input # Idle
    /\ Len(input.gossip) = 2
    /\ InRole(input.gossip, "Leader") = {}
    /\ model.no_leader_counter = 1
    /\ model.elections = 1
    /\ model.truncation_counter = 1
    /\ model.last_epoch_number = Some(2)
    /\ model.last_writer_checkpoint = Some(5)

\* C22 - on an update that finds a leader, the truncation counter goes up by
\* 1 exactly when a leader checkpoint was recorded before and is strictly
\* greater than the current leader's checkpoint, and is unchanged otherwise;
\* afterwards the recorded checkpoint and epoch are the current leader's.
C22_Truncation ==
    [][ClusterStep /\ InRole(input'.gossip, "Leader") # {}
          => LET leader == LeaderOf(input'.gossip) IN
             /\ model'.truncation_counter - model.truncation_counter =
                    IF \E last \in model.last_writer_checkpoint :
                           last > leader.writer_checkpoint
                    THEN 1 ELSE 0
             /\ model'.last_writer_checkpoint = Some(leader.writer_checkpoint)
             /\ model'.last_epoch_number = Some(leader.epoch_number)]_vars

\* the leader at checkpoint 5 was polled after a leader at checkpoint 6: one
\* truncation
C22_Witness ==
    /\ pc = "cluster"
    /\ input # Idle
    /\ InRole(input.gossip, "Leader") # {}
    /\ LeaderOf(input.gossip).writer_checkpoint = 5
    /\ model.increment = 4
    /\ model.truncation_counter = 1
    /\ model.last_writer_checkpoint = Some(5)

\* C23 - on an update that finds a leader, the out-of-sync counter goes up
\* by exactly 1 when at least two members in the Follower role have a writer
\* checkpoint strictly below the leader checkpoint recorded before, and is
\* unchanged when at most one follower is behind or no checkpoint was
\* recorded yet.
C23_OutOfSync ==
    [][ClusterStep /\ InRole(input'.gossip, "Leader") # {}
          => model'.out_of_sync_cluster_counter - model.out_of_sync_cluster_counter =
                 IF \E last \in model.last_writer_checkpoint :
                        Cardinality({i \in InRole(input'.gossip, "Follower") :
                                        input'.gossip[i].writer_checkpoint < last}) >= 2
                 THEN 1 ELSE 0]_vars

\* a leader with two followers at checkpoint 4 was polled after a leader at
\* checkpoint 5: the cluster is out of sync once
C23_Witness ==
    /\ pc = "cluster"
    /\ input # Idle
    /\ InRole(input.gossip, "Leader") # {}
    /\ Cardinality(InRole(input.gossip, "Follower")) = 2
    /\ model.increment = 4
    /\ model.out_of_sync_cluster_counter = 1

(***************************************************************************)
(* Properties of Monitoring::update: the samples and the logical time      *)
(***************************************************************************)
\* the value of the bytes-written sample the poll just made appended
LastBytesSample(m) == m.bytes_written[Len(m.bytes_written)][2]

\* C24 - the bytes-written sample appended by update is 0 on the first poll
\* and, on every later poll, the difference between this poll's cumulative
\* written-bytes counter and the previous poll's.
C24_SampleIsDifference ==
    [][PollStep
          => LastBytesSample(model') =
                 IF input = Idle THEN F32Zero
                 ELSE [num |-> input'.written_bytes - input.written_bytes,
                       den |-> 1]]_vars

\* C24, amended - the bytes-written sample appended by update is 0 on the
\* first poll and, on every later poll, the difference between this poll's
\* cumulative written-bytes counter and the previous poll's divided by 2,
\* the units of logical time between two polls.
C24_SampleIsHalfDifference ==
    [][PollStep
          => LET sample == LastBytesSample(model') IN
             /\ IsFinite(sample)
             /\ 2 * sample.num =
                    IF input = Idle THEN 0
                    ELSE (input'.written_bytes - input.written_bytes) * sample.den]_vars

\* the counter went from 0 to 8 between the second poll and the third: the
\* sample is 4
C24_Witness ==
    /\ pc = "monitoring"
    /\ input # Idle
    /\ input.polls = 3
    /\ input.written_bytes = 8
    /\ LastBytesSample(model) = [num |-> 4, den |-> 1]

Max(a, b) == IF a >= b THEN a ELSE b

\* C25 - after n update calls, with or without a leader, the logical-time
\* counter is 2n and time_bounds gives [max(0, 2n - 20), max(20, 2n)]: a
\* window 20 units wide that never starts below zero.
C25_TimeBounds ==
    pc = "monitoring" =>
        LET n == PollsSoFar
            bounds == time_bounds(model)
        IN  /\ model.increment = 2 * n
            /\ bounds = <<Max(0, 2 * n - 20), Max(20, 2 * n)>>
            /\ bounds[2] - bounds[1] = 20
            /\ bounds[1] >= 0

\* after twelve polls, some with a leader and some without, the window is
\* [4, 24]
C25_Witness ==
    /\ pc = "monitoring"
    /\ PollsSoFar = 12
    /\ model.no_leader_counter > 0
    /\ model.leader # None
    /\ time_bounds(model) = <<4, 24>>

(***************************************************************************)
(* Properties of the reads of streams                                      *)
(***************************************************************************)
\* C27 - projections detail fetch: when the stream of the selected
\* projection holds no `$ProjectionUpdated` record, or does not exist, the
\* refresh ends in a normal result: the program does not panic and the
\* controller's error slot is as it was.
C27_AbsenceNotSurfaced ==
    [][\A i \in DOMAIN calls' :
          (/\ calls'[i].call = "refresh"
           /\ calls'[i].view = 2
           /\ views'[3].stage = "Detail"
           /\ calls'[i].err = Some("ResourceNotFound"))
          => pc' # "panicked" /\ last_error' = last_error]_vars

(***************************************************************************)
(* Properties of the StreamsView                                           *)
(***************************************************************************)
\* the step under way is a load or a refresh of the StreamsView
StreamsFetch == pc = "streams" /\ input'.call \in {"load", "refresh"}

\* the read opened, and ended with Ok(None) or with ResourceNotFound
EndsQuietly(read) == read.open = "Ok" /\ read.end \in {"End", "ResourceNotFound"}

\* C26: a load or a refresh of the StreamsView whose reads all open, carry
\* UTF-8 text where text is expected, and end with Ok(None) or with
\* ResourceNotFound, one of them at least with ResourceNotFound, comes out
\* Ok, neither an error nor a panic, and the view holds the items read up
\* to there: the stream names of the two listings, the events of the
\* selected stream
C26_NotFoundEndsLoop ==
    [][(/\ StreamsFetch
        /\ input'.reads # <<>>
        /\ \A i \in DOMAIN input'.reads : EndsQuietly(input'.reads[i])
        /\ \E i \in DOMAIN input'.reads : input'.reads[i].end = "ResourceNotFound"
        /\ input'.call = "load" =>
               \A i \in DOMAIN input'.reads[1].items : input'.reads[1].items[i].utf8)
       => /\ input'.out = "Ok"
          /\ pc' # "panicked"
          /\ input'.call = "load" =>
                /\ model'.model.last_created = LastCreatedOf(input'.reads[1].items)
                /\ model'.model.recently_changed =
                       RecentlyChangedOf(<<>>, input'.reads[2].items)
          /\ input'.call = "refresh" =>
                model'.model.selected_stream_events = input'.reads[1].items]_vars

\* the same for load alone, whose two loops go through read_stream_next
LoadSwallowsNotFound ==
    [][(/\ StreamsFetch
        /\ input'.call = "load"
        /\ \A i \in DOMAIN input'.reads : EndsQuietly(input'.reads[i])
        /\ \A i \in DOMAIN input'.reads[1].items : input'.reads[1].items[i].utf8)
       => /\ input'.out = "Ok"
          /\ model'.model.last_created = LastCreatedOf(input'.reads[1].items)
          /\ model'.model.recently_changed =
                 RecentlyChangedOf(<<>>, input'.reads[2].items)]_vars

\* q and Q are one key to the handlers
KeyClass(key) == IF key = "Q" THEN "q" ELSE key

\* the moves of StreamsView's stage a key makes: from, to, key
StageMoves ==
    {<<"Main", "Popup", "/">>,
     <<"Popup", "Main", "Esc">>,
     <<"Popup", "Stream", "Enter">>,
     <<"Main", "Stream", "Enter">>,
     <<"Stream", "StreamPreview", "Enter">>,
     <<"StreamPreview", "Stream", "q">>,
     <<"Stream", "Main", "q">>}

\* C28: the stage of the StreamsView changes only by unload, which leaves it
\* at Main, or by a key along one of StageMoves (so Popup is entered from
\* Main only and StreamPreview from Stream only); unload always ends in
\* Main, a key of StageMoves pressed in its stage makes its move unless the
\* handler panics, and q or Q yields Exit in Main and nowhere else
C28_StageMachine ==
    [][/\ model'.stage # model.stage =>
             \/ input'.call = "unload" /\ model'.stage = "Main"
             \/ /\ input'.call = "on_key_pressed"
                /\ <<model.stage, model'.stage, KeyClass(input'.key)>> \in StageMoves
       /\ input'.call = "unload" => model'.stage = "Main"
       /\ (input'.call = "on_key_pressed" /\ input'.out = "Ok") =>
             /\ \A m \in StageMoves :
                   (model.stage = m[1] /\ KeyClass(input'.key) = m[3])
                       => model'.stage = m[2]
             /\ input'.req = "Exit" <=>
                   (model.stage = "Main" /\ KeyClass(input'.key) = "q")]_vars

\* Enter has opened the preview of an event of the selected stream
C28_Witness ==
    /\ pc = "streams"
    /\ input # Idle
    /\ input.call = "on_key_pressed"
    /\ input.key = "Enter"
    /\ model.stage = "StreamPreview"

(***************************************************************************)
(* Properties of the PersistentSubscriptionView                            *)
(***************************************************************************)
\* the step under way is a key press handled by the view
SubscriptionViewKeyStep ==
    pc = "subscription view" /\ input'.call = "on_key_pressed"

\* C29: in the PersistentSubscriptionView, Enter in Main opens Choices;
\* Enter in Choices opens Detail when the selected row of the popup is the
\* row 2 and changes nothing otherwise; q or Q in Choices or Detail goes
\* back to Main with both selections at 0 and yields Noop; a key yields Exit
\* exactly when it is q or Q in Main; and Detail is entered from Choices by
\* Enter, never otherwise
C29_StageMachine ==
    [][/\ SubscriptionViewKeyStep =>
             /\ (input'.key = "Enter" /\ model.stage = "Main") =>
                    model' = [model EXCEPT !.stage = "Choices"]
             /\ (input'.key = "Enter" /\ model.stage = "Choices") =>
                    model' = IF model.selected_choices = 2
                             THEN [model EXCEPT !.stage = "Detail"] ELSE model
             /\ (KeyClass(input'.key) = "q" /\ model.stage \in {"Choices", "Detail"}) =>
                    /\ model'.stage = "Main"
                    /\ model'.selected = 0
                    /\ model'.selected_choices = 0
                    /\ input'.req = "Noop"
             /\ input'.req = "Exit" <=>
                    (KeyClass(input'.key) = "q" /\ model.stage = "Main")
       /\ (model'.stage = "Detail" /\ model.stage # "Detail") =>
             /\ SubscriptionViewKeyStep
             /\ input'.key = "Enter"
             /\ model.stage = "Choices"]_vars

\* Enter on the row 2 of the popup has opened the detail
C29_Witness ==
    /\ pc = "subscription view"
    /\ input # Idle
    /\ input.call = "on_key_pressed"
    /\ input.key = "Enter"
    /\ model.stage = "Detail"
    /\ model.selected_choices = 2

(***************************************************************************)
(* Properties of the ProjectionsViews                                      *)
(***************************************************************************)
\* the step under way is a key press handled by the view
ProjectionsKeyStep ==
    pc = "projections view" /\ input'.call = "on_key_pressed"

\* the step under way is a refresh of the view
ProjectionsRefreshStep ==
    pc = "projections view" /\ input'.call = "refresh"

\* the names a listing carries
Listed(listing) == {listing.items[i].name : i \in DOMAIN listing.items}

\* C30: in the ProjectionsViews, Enter in Main opens Detail and yields
\* Refresh; q or Q in Detail goes back to Main with the selection at 0 and
\* yields Noop; a key yields Exit exactly when it is q or Q in Main. A
\* refresh leaves the stage and the selection alone: in Detail it writes at
\* most the query of the selected projection, the one its newest
\* $ProjectionUpdated record carries, and in Main it keeps every query and
\* adds the projections listed to the catalog
C30_StageMachine ==
    [][/\ ProjectionsKeyStep =>
             /\ (input'.key = "Enter" /\ model.stage = "Main") =>
                    /\ model' = [model EXCEPT !.stage = "Detail"]
                    /\ input'.req = "Refresh"
             /\ (KeyClass(input'.key) = "q" /\ model.stage = "Detail") =>
                    /\ model' = [model EXCEPT !.stage = "Main", !.selected = 0]
                    /\ input'.req = "Noop"
             /\ input'.req = "Exit" <=>
                    (KeyClass(input'.key) = "q" /\ model.stage = "Main")
       /\ (ProjectionsRefreshStep /\ model.stage = "Detail") =>
             IF Projections_by_idx(model.inner, model.selected) = None
             THEN model' = model
             ELSE LET name  == KeyAt(model.inner, model.selected)
                      found == FirstUpdated(input'.reads[1].items)
                  IN  IF input'.out = "Ok"
                      THEN /\ found # None
                           /\ model' = [model EXCEPT
                                           !.inner[name].query = Unwrap(found).query]
                      ELSE model' = model
       /\ (ProjectionsRefreshStep /\ model.stage = "Main") =>
             /\ model'.stage = "Main"
             /\ model'.selected = model.selected
             /\ \A n \in DOMAIN model.inner :
                   n \in DOMAIN model'.inner /\ model'.inner[n] = model.inner[n]
             /\ DOMAIN model'.inner =
                   IF input'.out = "Ok"
                   THEN DOMAIN model.inner \cup Listed(input'.reads[1])
                   ELSE DOMAIN model.inner]_vars

\* the refresh in Detail has fetched the query of the selected projection,
\* the second of the catalog, and of no other
C30_Witness ==
    /\ pc = "projections view"
    /\ input # Idle
    /\ input.call = "refresh"
    /\ input.out = "Ok"
    /\ model.stage = "Detail"
    /\ model.selected = 1
    /\ Projections_by_idx(model.inner, 1) # None
    /\ model.inner[KeyAt(model.inner, 1)].query # <<>>
    /\ model.inner[KeyAt(model.inner, 0)].query = <<>>

(***************************************************************************)
(* Properties of Projections::update: time, growth, query                  *)
(***************************************************************************)
\* the last place of a batch that carries the name
LastCarrying(updates, name) ==
    CHOOSE i \in Carrying(updates, name) : \A j \in Carrying(updates, name) : j <= i

\* the places of a batch that carry the name before its last place
EarlierCarrying(updates, name) ==
    Carrying(updates, name) \ {LastCarrying(updates, name)}

\* C31 - one call of update works with one time delta, this call's clock
\* reading minus the reading of the call before (0 in the first call): the
\* rate of every name whose rate the call writes is the difference of its
\* counters over that delta, wherever the name stands in the batch and
\* however many records the batch has, and the call leaves last_time at its
\* own reading.
C31_OneTimeDelta ==
    [][UpdateStep
          => LET now  == input'.now
                 last == IF input = Idle THEN now ELSE input.now
                 ups  == input'.updates
             IN  /\ model'.last_time = Some(now)
                 /\ model.last_time = IF input = Idle THEN None ELSE Some(input.now)
                 /\ \A name \in RatedNames :
                       (/\ Carrying(ups, name) # {}
                        /\ \/ name \in DOMAIN model.previous
                           \/ EarlierCarrying(ups, name) # {})
                       => LET i == LastCarrying(ups, name)
                              earlier == EarlierCarrying(ups, name)
                              before ==
                                  IF earlier = {} THEN model.previous[name]
                                  ELSE ups[CHOOSE j \in earlier :
                                              \A k \in earlier : k <= j]
                                          .events_processed_after_restart
                          IN  model'.inner[name].rate =
                                  F32Div(ups[i].events_processed_after_restart - before,
                                         now - last)]_vars

\* one call, two ticks after the call before, carries projection 2 and then
\* projection 1, both gone from 0 to 3 events: both rates are 3/2
C31_Witness ==
    /\ pc = "projections"
    /\ input # Idle
    /\ input.updates = <<[name |-> 2, events_processed_after_restart |-> 3],
                         [name |-> 1, events_processed_after_restart |-> 3]>>
    /\ model.last_time = Some(2)
    /\ model.inner[1].rate = [num |-> 3, den |-> 2]
    /\ model.inner[2].rate = [num |-> 3, den |-> 2]

\* the names the records of a batch carry
BatchNames(updates) == {updates[i].name : i \in DOMAIN updates}

\* the index of the entry `name` in the catalog's order, the order of the
\* names
IndexOf(inner, name) == Cardinality({n \in DOMAIN inner : n < name})

\* C32 - a call of update only grows the catalog, of projections and of
\* persistent subscriptions alike: the keys after the call are the keys
\* before it and the keys the listing carries, an entry the listing does
\* not carry keeps every value it had, and an entry of the Projections
\* catalog moves down the order by the number of new names inserted before
\* it and not otherwise.
C32_CatalogsGrow ==
    [][/\ UpdateStep =>
             LET listed == BatchNames(input'.updates) IN
             /\ DOMAIN model'.inner = DOMAIN model.inner \cup listed
             /\ \A n \in DOMAIN model.inner \ listed :
                   model'.inner[n] = model.inner[n]
             /\ \A n \in DOMAIN model.inner :
                   /\ IndexOf(model'.inner, n) =
                          IndexOf(model.inner, n)
                              + Cardinality({k \in listed \ DOMAIN model.inner : k < n})
                   /\ \A k \in DOMAIN model.inner :
                         IndexOf(model.inner, k) < IndexOf(model.inner, n)
                             => IndexOf(model'.inner, k) < IndexOf(model'.inner, n)
       /\ pc = "subscriptions catalog" =>
             /\ DOMAIN model' = DOMAIN model \cup input'.listed
             /\ \A k \in DOMAIN model \ input'.listed : model'[k] = model[k]]_vars

\* the listing carried projection 1 alone; projection 2, listed before with
\* 3 events, is still in the catalog with its 3 events, behind projection 1
C32_Witness ==
    /\ pc = "projections"
    /\ input # Idle
    /\ BatchNames(input.updates) = {1}
    /\ DOMAIN model.inner = {1, 2}
    /\ model.inner[2].events_processed = 3
    /\ IndexOf(model.inner, 2) = 1

(***************************************************************************)
(* Properties of the controller's tab index                                *)
(***************************************************************************)
\* C33 - the selected tab always designates a view of the controller, and
\* q or Q pressed with no error shown on a tab entered by Tab or BackTab, no
\* other key having been pressed since, yields Exit.
C33_TabDesignatesView ==
    [][/\ selected_tab' + 1 \in DOMAIN views'
       /\ (/\ KeyStep
           /\ op'.key \in {"q", "Q"}
           /\ switches.keys # <<>>
           /\ last_error = None
           /\ pc' # "panicked")
          => op'.req = "Exit"]_vars

\* C34 - the rate a call of update writes for a name its batch carries once
\* is the difference between the counter of this call and the counter kept
\* from an earlier call, over the time elapsed between these two calls:
\* also when calls that did not carry the name came in between.
C34_DivisorSpansTheCounts ==
    [][UpdateStep
          => \A name \in RatedNames :
                (/\ Cardinality(Carrying(input'.updates, name)) = 1
                 /\ name \in DOMAIN model.previous)
                => model'.inner[name].rate =
                       F32Div(CountOf(input'.updates, name) - model.previous[name],
                              input'.now - SuppliedSoFar[name])]_vars

(***************************************************************************)
(* Properties of the views' refresh                                        *)
(***************************************************************************)
\* the model a view holds: the catalog of the ProjectionsViews, the model
\* of the two others
ModelOf(where, v) == IF where = "projections view" THEN v.inner ELSE v.model

\* C35 - a refresh of the MonitoringView, the ProjectionsViews or the
\* PersistentSubscriptionView that returns an error leaves the view's model
\* as it was before the call.
C35_FailedRefreshKeepsModel ==
    [][(input'.call = "refresh" /\ input'.out \in Errors)
          => ModelOf(pc, model') = ModelOf(pc, model)]_vars

\* a refresh of the MonitoringView has failed after three polls were
\* applied: the windows still hold the three samples
C35_Witness ==
    /\ pc = "monitoring view"
    /\ input # Idle
    /\ input.call = "refresh"
    /\ input.out \in Errors
    /\ Len(model.model.cpu_load) = 3
    /\ model.stats_iter

\* C36 - in the ProjectionsViews, after every call the selection is 0 or
\* designates an entry of the catalog; Down moves it one entry down unless
\* it is on the last entry or the catalog is empty, where it stays, and Up
\* moves it one entry up unless it is 0, where it stays.
C36_SelectionInCatalog ==
    [][/\ pc = "projections view" =>
             \/ model'.selected = 0
             \/ model'.selected < Projections_count(model'.inner)
       /\ (ProjectionsKeyStep /\ input'.key = "Down") =>
             /\ model'.selected =
                    IF model.selected + 1 < Projections_count(model.inner)
                    THEN model.selected + 1 ELSE model.selected
             /\ model'.selected <= model.selected + 1
       /\ (ProjectionsKeyStep /\ input'.key = "Up") =>
             model'.selected = IF model.selected > 0 THEN model.selected - 1 ELSE 0]_vars

\* Down has been pressed and the selection is on the last of two
\* projections
C36_Witness ==
    /\ pc = "projections view"
    /\ input # Idle
    /\ input.call = "on_key_pressed"
    /\ input.key = "Down"
    /\ Projections_count(model.inner) = 2
    /\ model.selected = 1

(***************************************************************************)
(* Properties of StreamsView::unload and of the search Popup               *)
(***************************************************************************)
\* C37 - when the controller unloads the StreamsView on leaving its tab, the
\* view is as StreamsView::default() makes it: stage Main, selection 0,
\* table 0, scroll 0, empty search buffer, no selected stream, empty lists.
C37_UnloadResets ==
    [][(/\ pc' # "panicked"
        /\ \E i \in DOMAIN calls' :
              calls'[i].call = "unload" /\ calls'[i].view = 1)
          => views'[2] = StreamsDefault]_vars

\* the step under way is a key press handled by the StreamsView in Popup
PopupStep ==
    pc = "streams" /\ input'.call = "on_key_pressed" /\ model.stage = "Popup"

\* what every key does in the Popup, whatever it does to the buffer: it
\* yields Noop and leaves the selection, the table and the scroll alone;
\* Backspace drops the last character; only Esc and Enter leave the Popup,
\* and Enter moves the buffer into selected_stream and leaves it empty
PopupIsModal ==
    /\ input'.req = "Noop"
    /\ input'.out = "Ok"
    /\ model'.selected = model.selected
    /\ model'.selected_tab = model.selected_tab
    /\ model'.scroll = model.scroll
    /\ input'.key = "Backspace" =>
          /\ model'.stage = "Popup"
          /\ model'.buffer = IF model.buffer = <<>> THEN <<>>
                             ELSE SubSeq(model.buffer, 1, Len(model.buffer) - 1)
    /\ model'.stage # "Popup" => input'.key \in {"Esc", "Enter"}
    /\ input'.key = "Esc" => model'.stage = "Main"
    /\ input'.key = "Enter" =>
          /\ model'.stage = "Stream"
          /\ model'.model.selected_stream = Some(model.buffer)
          /\ model'.buffer = <<>>

OnQ(where, v) ==
    CASE where = "streams" -> Streams_on_key_pressed(v, "q", TRUE)
      [] where = "projections view" -> Projections_on_key_pressed(v, "q")
      [] where = "subscription view" -> PersistentSubscriptionView_on_key_pressed(v, "q")

\* q pressed again and again from the view v yields Exit at the press
\* after `presses` presses, each of which yielded Noop, and the stage is
\* Main when it does
RECURSIVE QuitsAfter(_, _, _)
QuitsAfter(where, v, presses) ==
    LET r == OnQ(where, v) IN
    /\ ~r.panic
    /\ IF presses = 0 THEN v.stage = "Main" /\ r.req = "Exit"
       ELSE r.req = "Noop" /\ QuitsAfter(where, r.view, presses - 1)

\* C39 - in the StreamsView, the ProjectionsViews and the
\* PersistentSubscriptionView, from every stage but the Popup, q pressed
\* again and again brings the view to Main within two presses, and the
\* press after that yields Exit.
C39_QuitWithinThree ==
    (pc \in {"streams", "projections view", "subscription view"}
        /\ model.stage # "Popup")
        => \E presses \in 0..2 : QuitsAfter(pc, model, presses)

\* q has been pressed in the preview of an event, two stages away from
\* Main, and the view is back in Stream
C39_Witness ==
    /\ pc = "streams"
    /\ input # Idle
    /\ input.call = "on_key_pressed"
    /\ input.key = "q"
    /\ input.req = "Noop"
    /\ model.stage = "Stream"
    /\ QuitsAfter(pc, model, 1)

\* a load or a refresh of the ProjectionsViews outside Detail that listed
\* the projections: the step that calls Projections::update
ListingUpdateStep ==
    /\ pc = "projections view"
    /\ input'.call \in {"load", "refresh"}
    /\ input'.out = "Ok"
    /\ model.stage # "Detail"

\* C40 - Projections::update writes the listed fields of an entry from the
\* record of its name and never the query: every entry of the catalog is
\* still there with the query it had, listed or not, every listed
\* projection has an entry under its name, and a projection listed for
\* the first time starts with an empty query.
C40_UpdateKeepsQuery ==
    [][ListingUpdateStep =>
           /\ \A n \in DOMAIN model.inner :
                 /\ n \in DOMAIN model'.inner
                 /\ model'.inner[n].query = model.inner[n].query
           /\ \A n \in Listed(input'.reads[1]) :
                 /\ n \in DOMAIN model'.inner
                 /\ model'.inner[n].name = n
                 /\ n \notin DOMAIN model.inner => model'.inner[n].query = <<>>
           /\ DOMAIN model'.inner = DOMAIN model.inner \cup Listed(input'.reads[1])
      ]_vars

\* a listing has just updated a projection whose query the Detail stage
\* had fetched, and the query is still there
C40_Witness ==
    /\ pc = "projections view"
    /\ input # Idle
    /\ input.call = "refresh"
    /\ input.out = "Ok"
    /\ model.stage = "Main"
    /\ \E n \in Listed(input.reads[1]) : model.inner[n].query # <<>>

====
